---- MODULE Spec2Model ----
(***************************************************************************)
(* homebridge-appletv-enhanced: the accessory's power/event handlers, the  *)
(* pairing loop, the RocketRemote control channel, the platform launch and *)
(* the Python environment checker, each as a state machine over the        *)
(* variables below.  Every component has its own initial predicate and     *)
(* next-state relation; the variables of the other components stay fixed.  *)
(*                                                                         *)
(* Strings are sequences of characters.  A multi-character literal that no *)
(* operation of the code looks into (a marker text, a word) is one element.*)
(***************************************************************************)
EXTENDS Integers, Sequences, FiniteSets, TLC

VARIABLES
    \* ---- AppleTVEnhancedAccessory: power and event handlers
    now,            \* Date.now(), milliseconds
    lastOnEvent,    \* this.lastOnEvent
    turningOn,      \* this.turningOn
    active,         \* value of the Television service's Active characteristic
    offline,        \* this.offline
    dsOn,           \* device states whose sensor has MotionDetected = true
    mtOn,           \* media types whose sensor has MotionDetected = true
    mediaState,     \* value of CurrentMediaState
    waits,          \* loop counters i of the running power-on wait loops
    op,             \* the handler that ran last, and what it did
    last,           \* the device: the value its last event of each category carried
    \* ---- AppleTVEnhancedAccessory: constructor and pair()
    credFile,       \* content of credentials.txt, or Absent
    pc,             \* where the constructor / pair() / startUp stands
    attempt,        \* iterations of pair()'s while loop begun so far
    goOn,           \* pair(): let goOn
    success,        \* pair(): let success
    credentials,    \* pair(): let credentials
    backOffSeconds, \* pair(): let backOffSeconds of the current iteration
    proc,           \* per iteration: its atvremote subprocess
    watchdog,       \* per iteration: its 32 s timer
    server,         \* per iteration: its HTTP server
    returned,       \* the value pair() resolved with
    successSeen,    \* the stdout chunk that set success, and its iteration (0: none)
    pairCalls,      \* invocations of pair()
    startUps,       \* invocations of startUp()
    hadCreds,       \* whether the constructor found credentials: "yes", "no"
    goOnBy,         \* the iteration whose subprocess's output set goOn last (0: none)
    sleep,          \* the countdown after the last wait: seconds due, ticks done
    host,           \* this.device.host, the ip argument of pair()
    httpPort,       \* pair(): const httpPort (0: pair() not entered)
    ports,          \* the port each iteration's server was told to listen on
    startUpRan,     \* startUp(): what has run since its await of listApps()
    pop,            \* pair(): the callback that ran last, and what it did
    \* ---- RocketRemote
    rr,             \* per instance: process, heartbeatInterval, onCloseCallable
    rop,            \* RocketRemote: the operation that ran last
    \* ---- PythonChecker
    supportedPythonVersions, \* the module-level list
    requirementsPath,        \* this.requirementsPath: "default", "openssl_legacy"
    venvCreated,    \* isVenvCreated(): the three files of the venv exist
    checker,        \* where allInOne() stands
    commands,       \* the mutating subprocesses run so far, in order
    cop,            \* checker / platform: the step that ran last
    \* ---- AppleTVEnhancedPlatform
    launch,         \* where the didFinishLaunching handler stands
    scans,          \* discoverDevices() calls so far
    pending,        \* discoverDevices() calls waiting for find()
    publishedUUIDs, \* this.publishedUUIDs
    constructed,    \* per device: AppleTVEnhancedAccessory objects constructed
    booted,         \* devices whose accessory has booted = true
    published       \* per device: publishExternalAccessories calls

accVars == <<now, lastOnEvent, turningOn, active, offline, dsOn, mtOn,
             mediaState, waits, op>>

pairVars == <<credFile, pc, attempt, goOn, success, credentials, backOffSeconds,
              proc, watchdog, server, returned, successSeen, pairCalls,
              startUps, hadCreds, goOnBy, sleep, host, httpPort, ports,
              startUpRan, pop>>

\* The callback address of pair().
netVars == <<host, httpPort, ports>>

rrVars == <<rr, rop>>

\* The event stream of the device.
evVars == <<last>>

platVars == <<supportedPythonVersions, requirementsPath, venvCreated, checker,
              commands, cop, launch, scans, pending, publishedUUIDs,
              constructed, booted, published>>

vars == <<accVars, evVars, pairVars, rrVars, platVars>>

\* What a step of one component leaves alone: the other components.
notAcc == <<evVars, pairVars, rrVars, platVars>>
notPair == <<accVars, evVars, rrVars, platVars>>
notRemote == <<accVars, evVars, pairVars, platVars>>
notPlat == <<accVars, evVars, pairVars, rrVars>>

NULL == "null"

(***************************************************************************)
(*                    AppleTVEnhancedAccessory                              *)
(***************************************************************************)

\* Date.now() when the accessory is constructed; an epoch time, far beyond
\* the grace window.
StartTime == 10000

\* How many grace windows of time the clock is followed for.
MaxWindows == 1

\* The grace window of handleActiveSet and handleActiveUpdate, milliseconds.
GRACE == 7500

WAIT_MAX_FOR_STATES == 30

STEPS == 250

\* How many power-on wait loops may run at once before the model stops
\* admitting another one.
MaxLoops == 2

\* The instants the clock is sampled at: every boundary of a grace window
\* that starts at an earlier instant, one millisecond before it and one after.
Instants ==
    { t \in { StartTime + k * GRACE + e : k \in 0..MaxWindows, e \in -1..1 } :
        t >= StartTime }

\* NodePyATVDeviceState and NodePyATVMediaType, and the ones the platform
\* configuration keeps a sensor for (createDeviceStateSensors,
\* createMediaTypeSensors skip the others).
DeviceStates == {"idle", "paused", "playing"}
MediaTypes == {"music", "video"}
deviceStateServices == {"paused", "playing"}
mediaTypeServices == {"video"}

RemoveAt(s, k) == SubSeq(s, 1, k - 1) \o SubSeq(s, k + 1, Len(s))

\* A handler that did nothing an observer can see reports out = "none".
Op(name, v, ov, out) == [name |-> name, v |-> v, ov |-> ov, out |-> out]

\* Time passes: the clock moves to a later instant.
Tick ==
    /\ \E t \in Instants : t > now /\ now' = t
    /\ op' = Op("tick", NULL, NULL, "none")
    /\ UNCHANGED <<lastOnEvent, turningOn, active, offline, dsOn, mtOn,
                   mediaState, waits>>
    /\ UNCHANGED notAcc

\* The same branch entered whether or not a power-on is in progress.
HandleActiveSetOn_Reentrant ==
    /\ Len(waits) < MaxLoops
    /\ turningOn' = TRUE
    /\ lastOnEvent' = now
    /\ waits' = Append(waits, STEPS)
    /\ op' = Op("setActive", NULL, NULL, "turnOn")
    /\ UNCHANGED <<now, active, offline, dsOn, mtOn, mediaState>>
    /\ UNCHANGED notAcc

\* handleActiveSet(ACTIVE) while no power-on is in progress: the flag and the
\* timestamp are written, turnOn is issued and the wait loop starts at
\* i = STEPS, suspended in its first getState().
HandleActiveSetOn ==
    /\ ~turningOn
    /\ Len(waits) < MaxLoops
    /\ turningOn' = TRUE
    /\ lastOnEvent' = now
    /\ waits' = Append(waits, STEPS)
    /\ op' = Op("setActive", NULL, NULL, "turnOn")
    /\ UNCHANGED <<now, active, offline, dsOn, mtOn, mediaState>>
    /\ UNCHANGED notAcc

\* handleActiveSet(ACTIVE) while turningOn: neither branch is taken.  The
\* handler resolves at once and the host stores the written value.
HandleActiveSetOnIgnored ==
    /\ turningOn
    /\ active' = "ACTIVE"
    /\ op' = Op("setActive", NULL, NULL, "none")
    /\ UNCHANGED <<now, lastOnEvent, turningOn, offline, dsOn, mtOn,
                   mediaState, waits>>
    /\ UNCHANGED notAcc

\* The condition under which handleActiveSet(INACTIVE) calls turnOff.
OffCommandForwarded == lastOnEvent + GRACE < now

\* handleActiveSet(INACTIVE).  The handler resolves at once and the host
\* stores the written value.
HandleActiveSetOff ==
    /\ op' = Op("setInactive", NULL, NULL,
                IF OffCommandForwarded THEN "turnOff" ELSE "none")
    /\ active' = "INACTIVE"
    /\ UNCHANGED <<now, lastOnEvent, turningOn, offline, dsOn, mtOn,
                   mediaState, waits>>
    /\ UNCHANGED notAcc

\* The same iteration with the ceiling tested one step late.
WaitNull_OnePollMore(k) ==
    /\ k \in 1..Len(waits)
    /\ IF waits[k] <= WAIT_MAX_FOR_STATES * 1000
       THEN /\ waits' = [waits EXCEPT ![k] = @ + STEPS]
            /\ op' = Op("poll", NULL, NULL, "null")
            /\ UNCHANGED <<turningOn, active>>
       ELSE /\ waits' = RemoveAt(waits, k)
            /\ turningOn' = FALSE
            /\ active' = "ACTIVE"
            /\ op' = Op("poll", NULL, NULL, "ceiling")
    /\ UNCHANGED <<now, lastOnEvent, offline, dsOn, mtOn, mediaState>>
    /\ UNCHANGED notAcc

\* The iteration of wait loop k whose getState() reported a null value: the
\* loop sleeps STEPS and goes on to the next i, or ends at the ceiling.  When
\* it ends, turningOn is cleared, the handler resolves and the host stores the
\* written value.
WaitNull(k) ==
    /\ k \in 1..Len(waits)
    /\ IF waits[k] + STEPS <= WAIT_MAX_FOR_STATES * 1000
       THEN /\ waits' = [waits EXCEPT ![k] = @ + STEPS]
            /\ op' = Op("poll", NULL, NULL, "null")
            /\ UNCHANGED <<turningOn, active>>
       ELSE /\ waits' = RemoveAt(waits, k)
            /\ turningOn' = FALSE
            /\ active' = "ACTIVE"
            /\ op' = Op("poll", NULL, NULL, "ceiling")
    /\ UNCHANGED <<now, lastOnEvent, offline, dsOn, mtOn, mediaState>>
    /\ UNCHANGED notAcc

\* The iteration whose getState() reported both values: their sensors are
\* switched on and the loop breaks.
WaitBoth(k, mt, ds) ==
    /\ k \in 1..Len(waits)
    /\ mtOn' = IF mt \in mediaTypeServices THEN mtOn \cup {mt} ELSE mtOn
    /\ dsOn' = IF ds \in deviceStateServices THEN dsOn \cup {ds} ELSE dsOn
    /\ waits' = RemoveAt(waits, k)
    /\ turningOn' = FALSE
    /\ active' = "ACTIVE"
    /\ op' = Op("poll", mt, ds, "both")
    /\ UNCHANGED <<now, lastOnEvent, offline, mediaState>>
    /\ UNCHANGED notAcc

\* The iteration whose getState() rejected: the rejection leaves the loop and
\* handleActiveSet through the await; no statement after the loop runs.
WaitRejected(k) ==
    /\ k \in 1..Len(waits)
    /\ waits' = RemoveAt(waits, k)
    /\ op' = Op("poll", NULL, NULL, "rejected")
    /\ UNCHANGED <<now, lastOnEvent, turningOn, active, offline, dsOn, mtOn,
                   mediaState>>
    /\ UNCHANGED notAcc

\* The same without the test of the event's value.
FilterOffline_AnyValue(v) == FALSE

\* filterErrorHandler on a typed event: the offline flag after it.
FilterOffline(v) == IF offline /\ v # NULL THEN FALSE ELSE offline

\* The same test with the boundary counted into the window.
OffEventSuppressed_Inclusive == lastOnEvent + GRACE >= now

\* handleActiveUpdate's test for an 'off' event inside the grace window.
OffEventSuppressed == lastOnEvent + GRACE > now

\* The handler without its comparison of value and oldValue.
PowerStateEvent_OldValueIgnored(v, ov) ==
    /\ offline' = FilterOffline(v)
    /\ LET value == IF v = "on" THEN "ACTIVE" ELSE "INACTIVE" IN
       IF v = NULL
       THEN /\ op' = Op("powerState", v, ov, "ignored")
            /\ UNCHANGED active
       ELSE IF value = "INACTIVE" /\ OffEventSuppressed
       THEN /\ op' = Op("powerState", v, ov, "suppressed")
            /\ UNCHANGED active
       ELSE /\ op' = Op("powerState", v, ov, "applied")
            /\ active' = value
    /\ UNCHANGED <<now, lastOnEvent, turningOn, dsOn, mtOn, mediaState, waits>>
    /\ UNCHANGED notAcc

\* update:powerState through filterErrorHandler into handleActiveUpdate.
PowerStateEvent(v, ov) ==
    /\ offline' = FilterOffline(v)
    /\ LET value == IF v = "on" THEN "ACTIVE" ELSE "INACTIVE" IN
       IF v = NULL \/ v = ov
       THEN /\ op' = Op("powerState", v, ov, "ignored")
            /\ UNCHANGED active
       ELSE IF value = "INACTIVE" /\ OffEventSuppressed
       THEN /\ op' = Op("powerState", v, ov, "suppressed")
            /\ UNCHANGED active
       ELSE /\ op' = Op("powerState", v, ov, "applied")
            /\ active' = value
    /\ UNCHANGED <<now, lastOnEvent, turningOn, dsOn, mtOn, mediaState, waits>>
    /\ UNCHANGED notAcc

\* The CurrentMediaState the switch of handleDeviceStateUpdate writes.
MediaStateFor(v, old) ==
    CASE v = "playing" -> "PLAY"
      [] v = "paused" -> "PAUSE"
      [] v = "stopped" -> "STOP"
      [] v = "loading" -> "LOADING"
      [] v = NULL -> "INTERRUPTED"
      [] OTHER -> old

\* The values the switch of handleDeviceStateUpdate has a case for.
MediaStateCases == {"playing", "paused", "stopped", "loading", NULL}

\* What an event handler reports: whether it called setCharacteristic at all.
Written(b) == IF b THEN "written" ELSE "none"

\* update:deviceState through filterErrorHandler into handleDeviceStateUpdate:
\* the sensor of oldValue is switched off; then, unless Active is INACTIVE,
\* the sensor of value is switched on and CurrentMediaState is written.
HandleDeviceStateUpdate(v, ov) ==
    /\ offline' = FilterOffline(v)
    /\ LET off == IF ov # NULL /\ ov \in deviceStateServices
                  THEN dsOn \ {ov} ELSE dsOn IN
       IF active = "INACTIVE"
       THEN /\ dsOn' = off
            /\ UNCHANGED mediaState
       ELSE /\ dsOn' = IF v # NULL /\ v \in deviceStateServices
                       THEN off \cup {v} ELSE off
            /\ mediaState' = MediaStateFor(v, mediaState)
    /\ op' = Op("deviceState", v, ov,
                Written(\/ (ov # NULL /\ ov \in deviceStateServices)
                        \/ /\ active # "INACTIVE"
                           /\ \/ (v # NULL /\ v \in deviceStateServices)
                              \/ v \in MediaStateCases))
    /\ UNCHANGED <<now, lastOnEvent, turningOn, active, mtOn, waits>>

\* An update:deviceState event with any value and any oldValue.
DeviceStateEvent(v, ov) ==
    /\ HandleDeviceStateUpdate(v, ov)
    /\ UNCHANGED notAcc

\* The device's next update:deviceState event: its oldValue is the value of
\* the event before it.
NextDeviceStateEvent(v) ==
    /\ HandleDeviceStateUpdate(v, last.deviceState)
    /\ last' = [last EXCEPT !.deviceState = v]
    /\ UNCHANGED <<pairVars, rrVars, platVars>>

\* update:mediaType through filterErrorHandler into handleMediaTypeUpdate:
\* the sensor of oldValue is switched off; then, unless Active is INACTIVE,
\* the sensor of value is switched on.
HandleMediaTypeUpdate(v, ov) ==
    /\ offline' = FilterOffline(v)
    /\ LET off == IF ov # NULL /\ ov \in mediaTypeServices
                  THEN mtOn \ {ov} ELSE mtOn IN
       IF active = "INACTIVE"
       THEN mtOn' = off
       ELSE mtOn' = IF v # NULL /\ v \in mediaTypeServices
                    THEN off \cup {v} ELSE off
    /\ op' = Op("mediaType", v, ov,
                Written(\/ (ov # NULL /\ ov \in mediaTypeServices)
                        \/ (active # "INACTIVE" /\ v # NULL
                              /\ v \in mediaTypeServices)))
    /\ UNCHANGED <<now, lastOnEvent, turningOn, active, dsOn, mediaState, waits>>

\* An update:mediaType event with any value and any oldValue.
MediaTypeEvent(v, ov) ==
    /\ HandleMediaTypeUpdate(v, ov)
    /\ UNCHANGED notAcc

\* The device's next update:mediaType event: its oldValue is the value of
\* the event before it.
NextMediaTypeEvent(v) ==
    /\ HandleMediaTypeUpdate(v, last.mediaType)
    /\ last' = [last EXCEPT !.mediaType = v]
    /\ UNCHANGED <<pairVars, rrVars, platVars>>

\* The three categories createListeners subscribes to.
Categories == {"powerState", "deviceState", "mediaType"}

\* The handler taken as if it let an Error through as an event without value.
ErrorShapedEvent_Passed(key) ==
    /\ op' = Op(key, "Error", NULL, "dropped")
    /\ offline' = FALSE
    /\ UNCHANGED <<now, lastOnEvent, turningOn, active, dsOn, mtOn,
                   mediaState, waits>>
    /\ UNCHANGED notAcc

\* An Error delivered on one of the three categories: filterErrorHandler
\* drops it.
ErrorShapedEvent(key) ==
    /\ op' = Op(key, "Error", NULL, "dropped")
    /\ UNCHANGED <<now, lastOnEvent, turningOn, active, offline, dsOn, mtOn,
                   mediaState, waits>>
    /\ UNCHANGED notAcc

\* The callback taken as if it also gave up a power-on in progress.
DeviceError_ClearsTurningOn ==
    /\ offline' = TRUE
    /\ turningOn' = FALSE
    /\ op' = Op("error", NULL, NULL, "none")
    /\ UNCHANGED <<now, lastOnEvent, active, dsOn, mtOn, mediaState, waits>>
    /\ UNCHANGED notAcc

\* The device's 'error' channel.
DeviceError ==
    /\ offline' = TRUE
    /\ op' = Op("error", NULL, NULL, "none")
    /\ UNCHANGED <<now, lastOnEvent, turningOn, active, dsOn, mtOn,
                   mediaState, waits>>
    /\ UNCHANGED notAcc

\* What an onGet handler answers while offline: it throws HapStatusError.
SERVICE_COMMUNICATION_FAILURE == "SERVICE_COMMUNICATION_FAILURE"

\* handleActiveGet.
HandleActiveGet ==
    /\ op' = Op("getActive", NULL, NULL,
                IF offline THEN SERVICE_COMMUNICATION_FAILURE ELSE active)
    /\ UNCHANGED <<now, lastOnEvent, turningOn, active, offline, dsOn, mtOn,
                   mediaState, waits>>
    /\ UNCHANGED notAcc

\* The onGet handler of a sensor's MotionDetected characteristic.
MotionDetectedGet(sensor) ==
    /\ op' = Op("getMotionDetected", sensor, NULL,
                IF offline THEN SERVICE_COMMUNICATION_FAILURE
                ELSE IF sensor \in dsOn \cup mtOn THEN "true" ELSE "false")
    /\ UNCHANGED <<now, lastOnEvent, turningOn, active, offline, dsOn, mtOn,
                   mediaState, waits>>
    /\ UNCHANGED notAcc

PowerValues == {"on", "off", NULL}

\* The state after startUp: Active INACTIVE, CurrentMediaState INTERRUPTED,
\* every sensor off, the fields at their declared initial values.
AccInit ==
    /\ now = StartTime
    /\ lastOnEvent = 0
    /\ turningOn = FALSE
    /\ active = "INACTIVE"
    /\ offline = FALSE
    /\ dsOn = {}
    /\ mtOn = {}
    /\ mediaState = "INTERRUPTED"
    /\ waits = <<>>
    /\ op = Op("startUp", NULL, NULL, "none")
    /\ last = [deviceState |-> NULL, mediaType |-> NULL]

(***************************************************************************)
(*                              Strings                                     *)
(***************************************************************************)

\* String.prototype.search / indexOf for a literal: the first position
\* (from 1) at which m occurs in s, 0 when it does not (JavaScript's -1).
Search(s, m) ==
    LET hits == { i \in 1..(Len(s) - Len(m) + 1) :
                    SubSeq(s, i, i + Len(m) - 1) = m }
    IN IF hits = {} THEN 0 ELSE CHOOSE i \in hits : \A j \in hits : i <= j

\* String.prototype.includes.
Includes(s, m) == Search(s, m) # 0

\* String.prototype.split(sep): the pieces between the occurrences of sep.
RECURSIVE Split(_, _)
Split(s, sep) ==
    LET i == Search(s, sep) IN
    IF i = 0 THEN <<s>>
    ELSE <<SubSeq(s, 1, i - 1)>> \o Split(SubSeq(s, i + Len(sep), Len(s)), sep)

WhiteSpace == {" ", "\n"}

\* String.prototype.trim.
RECURSIVE Trim(_)
Trim(s) ==
    IF s = <<>> THEN s
    ELSE IF Head(s) \in WhiteSpace THEN Trim(Tail(s))
    ELSE IF s[Len(s)] \in WhiteSpace THEN Trim(SubSeq(s, 1, Len(s) - 1))
    ELSE s

\* String.prototype.toUpperCase, character by character.
UpperOf(c) ==
    CASE c \in {"error", "Error"} -> "ERROR"
      [] c = "a" -> "A"
      [] c = "b" -> "B"
      [] c = "s" -> "S"
      [] c = "x" -> "X"
      [] OTHER -> c

ToUpperCase(s) == [i \in 1..Len(s) |-> UpperOf(s[i])]

\* Number.NaN, kept apart from every number parseInt can produce here.
NaN == -1

Digits == {"0", "1", "2", "3", "4", "5", "6", "7", "8", "9"}

DigitValue(c) ==
    CASE c = "0" -> 0 [] c = "1" -> 1 [] c = "2" -> 2 [] c = "3" -> 3
      [] c = "4" -> 4 [] c = "5" -> 5 [] c = "6" -> 6 [] c = "7" -> 7
      [] c = "8" -> 8 [] c = "9" -> 9

\* The value of the digits s begins with, read after the value acc.
RECURSIVE ReadDigits(_, _)
ReadDigits(s, acc) ==
    IF s # <<>> /\ Head(s) \in Digits
    THEN ReadDigits(Tail(s), 10 * acc + DigitValue(Head(s)))
    ELSE acc

RECURSIVE SkipWhiteSpace(_)
SkipWhiteSpace(s) ==
    IF s # <<>> /\ Head(s) \in WhiteSpace THEN SkipWhiteSpace(Tail(s)) ELSE s

\* parseInt: leading white space is skipped, the leading digits are read,
\* NaN when there is none.
ParseInt(s) ==
    LET t == SkipWhiteSpace(s) IN
    IF t # <<>> /\ Head(t) \in Digits THEN ReadDigits(t, 0) ELSE NaN

\* The + of JavaScript numbers.
Plus(a, b) == IF a = NaN \/ b = NaN THEN NaN ELSE a + b

\* String.prototype.replace with a literal pattern: the first occurrence only.
Replace(s, m, r) ==
    LET i == Search(s, m) IN
    IF i = 0 THEN s
    ELSE SubSeq(s, 1, i - 1) \o r \o SubSeq(s, i + Len(m), Len(s))

\* The length of the run of digits that begins at position i of s.
RECURSIVE DigitRun(_, _)
DigitRun(s, i) ==
    IF i <= Len(s) /\ s[i] \in Digits THEN 1 + DigitRun(s, i + 1) ELSE 0

\* The length of the match of /\d+\.\d+\.\d+/ that begins at position i of
\* s, 0 when there is none.  A run of digits is followed by a non-digit, so
\* the greedy \d+ takes the whole run.
MatchLenAt(s, i) ==
    LET a == DigitRun(s, i)
        b == DigitRun(s, i + a + 1)
        c == DigitRun(s, i + a + b + 2)
    IN IF /\ a > 0
          /\ i + a <= Len(s)
          /\ s[i + a] = "."
          /\ b > 0
          /\ i + a + b + 1 <= Len(s)
          /\ s[i + a + b + 1] = "."
          /\ c > 0
       THEN a + b + c + 2
       ELSE 0

\* s.match(/\d+\.\d+\.\d+/): r[0] of the first match, NULL for no match.
MatchVersion(s) ==
    LET hits == { i \in 1..Len(s) : MatchLenAt(s, i) > 0 } IN
    IF hits = {} THEN NULL
    ELSE LET i == CHOOSE i \in hits : \A j \in hits : i <= j
         IN SubSeq(s, i, i + MatchLenAt(s, i) - 1)

\* compareVersions(v1, v2) of two versions of three numeric parts: 1, 0 or -1
\* as v1 is greater than, equal to or less than v2, part by part.
CompareVersions(v1, v2) ==
    LET a == Split(v1, <<".">>)
        b == Split(v2, <<".">>)
        n(x) == ReadDigits(x, 0)
        diff == { i \in 1..3 : n(a[i]) # n(b[i]) }
    IN IF diff = {} THEN 0
       ELSE LET i == CHOOSE i \in diff : \A j \in diff : i <= j
            IN IF n(a[i]) > n(b[i]) THEN 1 ELSE -1

(***************************************************************************)
(*           AppleTVEnhancedAccessory: constructor and pair()               *)
(***************************************************************************)

\* How many iterations of pair()'s while loop the model follows.
MaxAttempts == 2

Attempts == 1..MaxAttempts

\* 'Enter PIN on screen:', 'BackOff=' and
\* 'You may now use these credentials: ' (whose last two characters are the
\* separator the success branch splits at).
PinMarker == <<"Enter PIN on screen:">>
BackOffMarker == <<"BackOff=">>
SuccessMarker == <<"You may now use these credentials", ":", " ">>

\* The chunks of output a pairing subprocess is followed through: some text
\* before, one of the pieces, one of the tails.
ChunkHeads == { <<>>, <<"x", ":", " ">> }
ChunkPieces ==
    { <<>>,
      PinMarker,
      BackOffMarker \o <<"1", "2", "s">>,
      BackOffMarker \o <<"s">>,
      <<"error">>,
      <<"Error", "\n">>,
      SuccessMarker \o <<"a", "\n">>,
      SuccessMarker \o <<" ", "a", ":", "b", "\n">> }
ChunkTails == { <<>>, <<"error">>, SuccessMarker \o <<"b", "\n">> }
Chunks == { h \o p \o q : h \in ChunkHeads, p \in ChunkPieces, q \in ChunkTails }

\* credentials.txt does not exist; pair() has not resolved.
Absent == <<"ENOENT">>
Pending == <<"pending">>

\* The contents credentials.txt may have when the accessory is constructed.
InitialFiles == { Absent, <<>>, <<" ", "\n">>, <<"a">>, <<"a", ":", "b", "\n">> }

POp(name, k, data) == [name |-> name, k |-> k, data |-> data]

\* No countdown has begun since the current iteration was entered.
NoSleep == [due |-> 0, done |-> 0]

\* The same with flag 'w' in place of 'wx': the default content always lands.
GetPath_Overwrites(file) == <<>>

\* getPath('credentials.txt', ''): the file is created empty unless it exists.
GetPath(file) == IF file = Absent THEN <<>> ELSE file

\* The longest credentials string that is saved.
MaxCredLen == 3

\* The characters of a credentials string: white space and others.
CredChars == {" ", "\n", "a", ":"}

CredentialStrings == UNION { [1..n -> CredChars] : n \in 0..MaxCredLen }

\* saveCredentials(credentials): getPath creates the file if it is missing,
\* then the string replaces the file's content.
SaveCredentials(c) ==
    /\ credFile' = c
    /\ pop' = POp("saveCredentials", 0, c)
    /\ UNCHANGED <<pc, attempt, goOn, success, credentials, backOffSeconds,
                   proc, watchdog, server, returned, successSeen, pairCalls,
                   startUps, hadCreds, goOnBy, sleep>>
    /\ UNCHANGED netVars
    /\ UNCHANGED startUpRan
    /\ UNCHANGED notPair

\* getCredentials(): getPath creates the file if it is missing, then the
\* file is read and trimmed.
GetCredentials ==
    /\ credFile' = GetPath(credFile)
    /\ pop' = POp("getCredentials", 0, Trim(credFile'))
    /\ UNCHANGED <<pc, attempt, goOn, success, credentials, backOffSeconds,
                   proc, watchdog, server, returned, successSeen, pairCalls,
                   startUps, hadCreds, goOnBy, sleep>>
    /\ UNCHANGED netVars
    /\ UNCHANGED startUpRan
    /\ UNCHANGED notPair

\* The same with the first octet in place of the last.
HttpPort_FirstOctet(ip) ==
    LET ipSplitted == Split(ip, <<".">>)
        ipEnd == ipSplitted[1]
    IN Plus(42000, ParseInt(ipEnd))

\* pair(): const httpPort = 42000 + parseInt(ipEnd).
HttpPort(ip) ==
    LET ipSplitted == Split(ip, <<".">>)
        ipEnd == ipSplitted[Len(ipSplitted)]
    IN Plus(42000, ParseInt(ipEnd))

\* The constructor: getCredentials(), then pair() or startUp().
Construct ==
    /\ pc = "new"
    /\ credFile' = GetPath(credFile)
    /\ IF Trim(GetPath(credFile)) = <<>>
       THEN /\ pc' = "loop"
            /\ pairCalls' = pairCalls + 1
            /\ hadCreds' = "no"
            /\ httpPort' = HttpPort(host)
            /\ UNCHANGED startUps
       ELSE /\ pc' = "started"
            /\ startUps' = startUps + 1
            /\ hadCreds' = "yes"
            /\ UNCHANGED <<pairCalls, httpPort>>
    /\ pop' = POp("constructor", 0, Trim(GetPath(credFile)))
    /\ UNCHANGED <<attempt, goOn, success, credentials, backOffSeconds, proc,
                   watchdog, server, returned, successSeen>>
    /\ UNCHANGED <<goOnBy, sleep>>
    /\ UNCHANGED <<host, ports>>
    /\ UNCHANGED startUpRan
    /\ UNCHANGED notPair

\* while (!success) with success false: the body up to the wait.  The
\* iteration's backOffSeconds and processClosed start afresh, its subprocess
\* is spawned, its watchdog armed, its server listening.
SpawnAttempt ==
    /\ pc = "loop"
    /\ ~success
    /\ attempt < MaxAttempts
    /\ attempt' = attempt + 1
    /\ backOffSeconds' = 0
    /\ proc' = [proc EXCEPT ![attempt + 1] = "running"]
    /\ watchdog' = [watchdog EXCEPT ![attempt + 1] = "armed"]
    /\ server' = [server EXCEPT ![attempt + 1] = "listening"]
    /\ ports' = Append(ports, httpPort)
    /\ pc' = "wait"
    /\ sleep' = NoSleep
    /\ pop' = POp("spawn", attempt + 1, <<>>)
    /\ UNCHANGED <<credFile, goOn, success, credentials, returned, successSeen,
                   pairCalls, startUps, hadCreds, goOnBy>>
    /\ UNCHANGED <<host, httpPort>>
    /\ UNCHANGED startUpRan
    /\ UNCHANGED notPair

\* while (!success) with success true: return credentials.
PairReturn ==
    /\ pc = "loop"
    /\ success
    /\ returned' = credentials
    /\ pc' = "returned"
    /\ pop' = POp("return", attempt, credentials)
    /\ UNCHANGED <<credFile, attempt, goOn, success, credentials, backOffSeconds,
                   proc, watchdog, server, successSeen, pairCalls, startUps,
                   hadCreds>>
    /\ UNCHANGED <<goOnBy, sleep>>
    /\ UNCHANGED netVars
    /\ UNCHANGED startUpRan
    /\ UNCHANGED notPair

\* The number parsed, without the margin of 5.
BackOffOf_NoMargin(data) ==
    LET rest == SubSeq(data, Search(data, BackOffMarker) + Len(BackOffMarker),
                       Len(data))
    IN ParseInt(Split(rest, <<"s">>)[1])

\* The number the BackOff branch computes from a chunk.
BackOffOf(data) ==
    LET rest == SubSeq(data, Search(data, BackOffMarker) + Len(BackOffMarker),
                       Len(data))
    IN Plus(ParseInt(Split(rest, <<"s">>)[1]), 5)

\* The credentials the success branch takes from a chunk.
CredentialsOf(data) == Trim(Split(data, <<":", " ">>)[2])

\* The handler with the success test before the error test.
StdoutData_SuccessFirst(k, data) ==
    /\ proc[k] \in {"running", "exited"}
    /\ IF Includes(data, PinMarker)
       THEN UNCHANGED <<goOn, success, credentials, backOffSeconds,
                        successSeen, goOnBy>>
       ELSE IF Includes(data, BackOffMarker)
       THEN /\ backOffSeconds' = BackOffOf(data)
            /\ goOn' = TRUE
            /\ goOnBy' = k
            /\ UNCHANGED <<success, credentials, successSeen>>
       ELSE IF Includes(data, SuccessMarker)
       THEN /\ credentials' = CredentialsOf(data)
            /\ goOn' = TRUE
            /\ goOnBy' = k
            /\ success' = TRUE
            /\ successSeen' = [k |-> k, data |-> data]
            /\ UNCHANGED backOffSeconds
       ELSE IF Includes(ToUpperCase(data), <<"ERROR">>)
       THEN /\ goOn' = TRUE
            /\ goOnBy' = k
            /\ UNCHANGED <<success, credentials, backOffSeconds, successSeen>>
       ELSE UNCHANGED <<goOn, success, credentials, backOffSeconds,
                        successSeen, goOnBy>>
    /\ pop' = POp("stdout", k, data)
    /\ UNCHANGED <<credFile, pc, attempt, proc, watchdog, server, returned,
                   pairCalls, startUps, hadCreds, sleep>>
    /\ UNCHANGED netVars
    /\ UNCHANGED startUpRan
    /\ UNCHANGED notPair

\* A 'data' event on the stdout of iteration k's subprocess.
StdoutData(k, data) ==
    /\ proc[k] \in {"running", "exited"}
    /\ IF Includes(data, PinMarker)
       THEN UNCHANGED <<goOn, success, credentials, backOffSeconds,
                        successSeen, goOnBy>>
       ELSE IF Includes(data, BackOffMarker)
       THEN /\ backOffSeconds' = BackOffOf(data)
            /\ goOn' = TRUE
            /\ goOnBy' = k
            /\ UNCHANGED <<success, credentials, successSeen>>
       ELSE IF Includes(ToUpperCase(data), <<"ERROR">>)
       THEN /\ goOn' = TRUE
            /\ goOnBy' = k
            /\ UNCHANGED <<success, credentials, backOffSeconds, successSeen>>
       ELSE IF Includes(data, SuccessMarker)
       THEN /\ credentials' = CredentialsOf(data)
            /\ goOn' = TRUE
            /\ goOnBy' = k
            /\ success' = TRUE
            /\ successSeen' = [k |-> k, data |-> data]
            /\ UNCHANGED backOffSeconds
       ELSE UNCHANGED <<goOn, success, credentials, backOffSeconds,
                        successSeen, goOnBy>>
    /\ pop' = POp("stdout", k, data)
    /\ UNCHANGED <<credFile, pc, attempt, proc, watchdog, server, returned,
                   pairCalls, startUps, hadCreds, sleep>>
    /\ UNCHANGED netVars
    /\ UNCHANGED startUpRan
    /\ UNCHANGED notPair

\* What a pairing subprocess writes to stderr.
StderrChunks == { <<"x", "\n">>, <<"Error", "\n">> }

\* A 'data' event on the stderr of iteration k's subprocess.
StderrData(k, data) ==
    /\ proc[k] \in {"running", "exited"}
    /\ goOn' = TRUE
    /\ goOnBy' = k
    /\ pop' = POp("stderr", k, data)
    /\ UNCHANGED <<credFile, pc, attempt, success, credentials, backOffSeconds,
                   proc, watchdog, server, returned, successSeen, pairCalls,
                   startUps, hadCreds, sleep>>
    /\ UNCHANGED netVars
    /\ UNCHANGED startUpRan
    /\ UNCHANGED notPair

\* The subprocess of iteration k ends; what it wrote may still be delivered.
ProcExit(k) ==
    /\ proc[k] = "running"
    /\ proc' = [proc EXCEPT ![k] = "exited"]
    /\ pop' = POp("exit", k, <<>>)
    /\ UNCHANGED <<credFile, pc, attempt, goOn, success, credentials,
                   backOffSeconds, watchdog, server, returned, successSeen,
                   pairCalls, startUps, hadCreds>>
    /\ UNCHANGED <<goOnBy, sleep>>
    /\ UNCHANGED netVars
    /\ UNCHANGED startUpRan
    /\ UNCHANGED notPair

\* Its 'close' event: processClosed = true.
ProcClose(k) ==
    /\ proc[k] = "exited"
    /\ proc' = [proc EXCEPT ![k] = "closed"]
    /\ pop' = POp("close", k, <<>>)
    /\ UNCHANGED <<credFile, pc, attempt, goOn, success, credentials,
                   backOffSeconds, watchdog, server, returned, successSeen,
                   pairCalls, startUps, hadCreds>>
    /\ UNCHANGED <<goOnBy, sleep>>
    /\ UNCHANGED netVars
    /\ UNCHANGED startUpRan
    /\ UNCHANGED notPair

\* A write to the stdin of iteration to's subprocess, made by a callback of
\* iteration k, and the state that subprocess is in.
StdinOp(by, k, to, text) ==
    [name |-> by, k |-> k, data |-> text, to |-> to, state |-> proc[to]]

\* The timer callback without the processClosed test.
WatchdogFires_Unconditional(k) ==
    /\ watchdog[k] = "armed"
    /\ watchdog' = [watchdog EXCEPT ![k] = "fired"]
    /\ pop' = StdinOp("watchdog", k, k, <<"\n">>)
    /\ UNCHANGED <<credFile, pc, attempt, goOn, success, credentials,
                   backOffSeconds, proc, server, returned, successSeen,
                   pairCalls, startUps, hadCreds>>
    /\ UNCHANGED <<goOnBy, sleep>>
    /\ UNCHANGED netVars
    /\ UNCHANGED startUpRan
    /\ UNCHANGED notPair

\* The 32 s timer of iteration k fires: a newline goes to the subprocess's
\* stdin unless processClosed.
WatchdogFires(k) ==
    /\ watchdog[k] = "armed"
    /\ watchdog' = [watchdog EXCEPT ![k] = "fired"]
    /\ pop' = IF proc[k] # "closed" THEN StdinOp("watchdog", k, k, <<"\n">>)
              ELSE POp("watchdog", k, <<>>)
    /\ UNCHANGED <<credFile, pc, attempt, goOn, success, credentials,
                   backOffSeconds, proc, server, returned, successSeen,
                   pairCalls, startUps, hadCreds>>
    /\ UNCHANGED <<goOnBy, sleep>>
    /\ UNCHANGED netVars
    /\ UNCHANGED startUpRan
    /\ UNCHANGED notPair

\* The bodies a POST to the pairing page is followed with: the form's four
\* fields, fewer, more, none, and a field without a value.
PostBodies ==
    { <<>>,
      <<"a", "=", "1", "&", "b", "=", "2", "&", "c", "=", "3", "&", "d", "=", "4">>,
      <<"a", "=", "1", "&", "b", "=", "2">>,
      <<"a", "=", "1", "&", "b", "=", "2", "&", "c", "=", "3", "&", "d", "=", "4",
        "&", "e", "=", "5">>,
      <<"a", "=", "&", "b", "=", "7", "&", "c", "=", "8", "&", "d", "=", "9">> }

\* String.prototype.charAt(i), i counted from 0.
CharAt(s, i) == IF i + 1 <= Len(s) THEN <<s[i + 1]>> ELSE <<>>

\* `${x}` of the i-th element of the array m: 'undefined' beyond its end.
TemplateOf(m, i) == IF i <= Len(m) THEN m[i] ELSE <<"undefined">>

\* The PIN taken from index 1 of each field.
PinOf_Offset1(reqBody) ==
    LET parts == Split(reqBody, <<"&">>)
        m == [i \in 1..Len(parts) |-> CharAt(parts[i], 1)]
    IN TemplateOf(m, 1) \o TemplateOf(m, 2) \o TemplateOf(m, 3) \o TemplateOf(m, 4)

\* const [a, b, c, d] = reqBody.split('&').map((e) => e.charAt(2));
\* const pin = `${a}${b}${c}${d}`.
PinOf(reqBody) ==
    LET parts == Split(reqBody, <<"&">>)
        m == [i \in 1..Len(parts) |-> CharAt(parts[i], 2)]
    IN TemplateOf(m, 1) \o TemplateOf(m, 2) \o TemplateOf(m, 3) \o TemplateOf(m, 4)

\* A POST handled by the request listener of iteration k, and what its 'end'
\* callback wrote to the stdin of that iteration's subprocess.
PostOp(k, reqBody, text) ==
    [name |-> "post", k |-> k, body |-> reqBody, data |-> text, to |-> k,
     state |-> proc[k]]

\* requestListener of iteration k, GET: the input page is sent.
Get(k) ==
    /\ server[k] = "listening"
    /\ pop' = POp("get", k, <<>>)
    /\ UNCHANGED <<credFile, pc, attempt, goOn, success, credentials,
                   backOffSeconds, proc, watchdog, server, returned,
                   successSeen, pairCalls, startUps, hadCreds>>
    /\ UNCHANGED <<goOnBy, sleep>>
    /\ UNCHANGED netVars
    /\ UNCHANGED startUpRan
    /\ UNCHANGED notPair

\* requestListener of iteration k, any other method, from its 'end' event on:
\* `${pin}\n` is written to the stdin of iteration k's subprocess.
Post(k, reqBody) ==
    /\ server[k] = "listening"
    /\ pop' = PostOp(k, reqBody, PinOf(reqBody) \o <<"\n">>)
    /\ UNCHANGED <<credFile, pc, attempt, goOn, success, credentials,
                   backOffSeconds, proc, watchdog, server, returned,
                   successSeen, pairCalls, startUps, hadCreds>>
    /\ UNCHANGED <<goOnBy, sleep>>
    /\ UNCHANGED netVars
    /\ UNCHANGED startUpRan
    /\ UNCHANGED notPair

\* The end of the wait without server.close().
WaitEnds_NoClose ==
    /\ pc = "wait"
    /\ goOn
    /\ proc[attempt] = "closed"
    /\ UNCHANGED server
    /\ pc' = IF backOffSeconds # 0 /\ backOffSeconds > 0 THEN "backoff" ELSE "loop"
    /\ sleep' = [due |-> IF backOffSeconds # 0 /\ backOffSeconds > 0
                          THEN backOffSeconds ELSE 0,
                 done |-> 0]
    /\ pop' = POp("waitEnds", attempt, <<>>)
    /\ UNCHANGED <<credFile, attempt, goOn, success, credentials, backOffSeconds,
                   proc, watchdog, returned, successSeen, pairCalls, startUps,
                   hadCreds, goOnBy>>
    /\ UNCHANGED netVars
    /\ UNCHANGED startUpRan
    /\ UNCHANGED notPair

\* The poll of the wait loop that finds goOn && processClosed:
\* server.close(), then the backoff countdown if a value was captured.
WaitEnds ==
    /\ pc = "wait"
    /\ goOn
    /\ proc[attempt] = "closed"
    /\ server' = [server EXCEPT ![attempt] = "closed"]
    /\ pc' = IF backOffSeconds # 0 /\ backOffSeconds > 0 THEN "backoff" ELSE "loop"
    /\ sleep' = [due |-> IF backOffSeconds # 0 /\ backOffSeconds > 0
                          THEN backOffSeconds ELSE 0,
                 done |-> 0]
    /\ pop' = POp("waitEnds", attempt, <<>>)
    /\ UNCHANGED <<credFile, attempt, goOn, success, credentials, backOffSeconds,
                   proc, watchdog, returned, successSeen, pairCalls, startUps,
                   hadCreds, goOnBy>>
    /\ UNCHANGED netVars
    /\ UNCHANGED startUpRan
    /\ UNCHANGED notPair

\* One delay(1000) of the countdown has elapsed.
BackOffTick ==
    /\ pc = "backoff"
    /\ backOffSeconds' = backOffSeconds - 1
    /\ pc' = IF backOffSeconds - 1 > 0 THEN "backoff" ELSE "loop"
    /\ sleep' = [sleep EXCEPT !.done = @ + 1]
    /\ pop' = POp("backoffTick", attempt, <<>>)
    /\ UNCHANGED <<credFile, attempt, goOn, success, credentials, proc, watchdog,
                   server, returned, successSeen, pairCalls, startUps, hadCreds,
                   goOnBy>>
    /\ UNCHANGED netVars
    /\ UNCHANGED startUpRan
    /\ UNCHANGED notPair

\* The callback without saveCredentials(c): startUp(c) only.
PairThen_NoSave ==
    /\ pc = "returned"
    /\ startUps' = startUps + 1
    /\ pc' = "started"
    /\ pop' = POp("then", attempt, returned)
    /\ UNCHANGED <<credFile, attempt, goOn, success, credentials, backOffSeconds,
                   proc, watchdog, server, returned, successSeen, pairCalls,
                   hadCreds>>
    /\ UNCHANGED <<goOnBy, sleep>>
    /\ UNCHANGED netVars
    /\ UNCHANGED startUpRan
    /\ UNCHANGED notPair

\* pair(...).then: saveCredentials(c), startUp(c).
PairThen ==
    /\ pc = "returned"
    /\ credFile' = returned
    /\ startUps' = startUps + 1
    /\ pc' = "started"
    /\ pop' = POp("then", attempt, returned)
    /\ UNCHANGED <<attempt, goOn, success, credentials, backOffSeconds, proc,
                   watchdog, server, returned, successSeen, pairCalls, hadCreds>>
    /\ UNCHANGED <<goOnBy, sleep>>
    /\ UNCHANGED netVars
    /\ UNCHANGED startUpRan
    /\ UNCHANGED notPair

\* The last octet a dotted-decimal host can have.
Octets == 0..255

DigitChar(n) == <<"0", "1", "2", "3", "4", "5", "6", "7", "8", "9">>[n + 1]

\* The decimal numeral of n.
RECURSIVE Decimal(_)
Decimal(n) ==
    IF n < 10 THEN <<DigitChar(n)>>
    ELSE Decimal(n \div 10) \o <<DigitChar(n % 10)>>

\* The host a.b.c.d with last octet d.
HostOf(d) == <<"192", ".", "168", ".", "1", ".">> \o Decimal(d)

Hosts == { HostOf(d) : d \in Octets }

\* Before the constructor runs, but for the file and the host.
PairStart ==
    /\ pc = "new"
    /\ attempt = 0
    /\ goOn = FALSE
    /\ success = FALSE
    /\ credentials = <<>>
    /\ backOffSeconds = 0
    /\ proc = [k \in Attempts |-> "none"]
    /\ watchdog = [k \in Attempts |-> "none"]
    /\ server = [k \in Attempts |-> "none"]
    /\ returned = Pending
    /\ successSeen = [k |-> 0, data |-> <<>>]
    /\ pairCalls = 0
    /\ startUps = 0
    /\ hadCreds = "unknown"
    /\ goOnBy = 0
    /\ sleep = NoSleep
    /\ httpPort = 0
    /\ ports = <<>>
    /\ startUpRan = <<>>
    /\ pop = POp("none", 0, <<>>)

\* Before the constructor runs: any credentials file, one host.
PairInit ==
    /\ PairStart
    /\ credFile \in InitialFiles
    /\ host = HostOf(17)

\* Before the constructor runs: no credentials file, any host.
PortInit ==
    /\ PairStart
    /\ credFile = Absent
    /\ host \in Hosts

\* startUp() after its await of listApps(): the statements that run, in
\* order and without suspension, once the app list has arrived.
StartUpTail ==
    <<"createInputs", "createDeviceStateSensors", "createMediaTypeSensors",
      "createListeners", "booted">>

\* An accessory that found its credentials and has started.
PairDone ==
    /\ credFile = <<"a">>
    /\ pc = "started"
    /\ attempt = 0
    /\ goOn = FALSE
    /\ success = FALSE
    /\ credentials = <<>>
    /\ backOffSeconds = 0
    /\ proc = [k \in Attempts |-> "none"]
    /\ watchdog = [k \in Attempts |-> "none"]
    /\ server = [k \in Attempts |-> "none"]
    /\ returned = Pending
    /\ successSeen = [k |-> 0, data |-> <<>>]
    /\ pairCalls = 0
    /\ startUps = 1
    /\ hadCreds = "yes"
    /\ goOnBy = 0
    /\ sleep = NoSleep
    /\ host = HostOf(17)
    /\ httpPort = 0
    /\ ports = <<>>
    /\ startUpRan = StartUpTail
    /\ pop = POp("constructor", 0, <<"a">>)

(***************************************************************************)
(*                             RocketRemote                                 *)
(***************************************************************************)

\* How many RocketRemote instances are followed, and how many onClose calls
\* each of them may receive.
MaxChannels == 2
MaxRegistrations == 2

Channels == 1..MaxChannels

\* The functions callers pass to onClose.
Callbacks == {"f", "g"}

\* An instance: its subprocess ("none" before the constructor, then
\* "running", "exited", and "closed" once 'close' was emitted), the number of
\* subprocesses it has spawned, whether its heartbeat interval is set,
\* onCloseCallable, the once('close') listeners on its subprocess, the number
\* of onClose calls so far and at the time the subprocess ended, and how often
\* each callback has been invoked.
NoChannel ==
    [process |-> "none", spawned |-> 0, heartbeat |-> FALSE,
     onCloseCallable |-> "undefined", listeners |-> 0, registered |-> 0,
     registeredAtExit |-> 0, invoked |-> [f \in Callbacks |-> 0]]

ROp(name, i, process) == [name |-> name, i |-> i, process |-> process]

\* new RocketRemote(...): initProcess() spawns the subprocess and
\* initHeartbeat() sets the interval.
NewRocketRemote(i) ==
    /\ rr[i].process = "none"
    /\ \A j \in Channels : j < i => rr[j].process # "none"
    /\ rr' = [rr EXCEPT ![i].process = "running",
                        ![i].spawned = @ + 1,
                        ![i].heartbeat = TRUE]
    /\ rop' = ROp("new", i, "running")
    /\ UNCHANGED notRemote

\* The interval fires: 'app_list\n' is written to the subprocess's stdin.
HeartbeatTick(i) ==
    /\ rr[i].heartbeat
    /\ rop' = ROp("heartbeat", i, rr[i].process)
    /\ UNCHANGED rr
    /\ UNCHANGED notRemote

\* sendCommand(cmd): '<cmd>\n' is written to the subprocess's stdin.
SendCommand(i) ==
    /\ rr[i].process # "none"
    /\ rop' = ROp("command", i, rr[i].process)
    /\ UNCHANGED rr
    /\ UNCHANGED notRemote

\* onClose(f): the field is overwritten and one more once('close') listener
\* is put on the subprocess.
OnClose(i, f) ==
    /\ rr[i].process # "none"
    /\ rr[i].registered < MaxRegistrations
    /\ rr' = [rr EXCEPT ![i].onCloseCallable = f,
                        ![i].listeners = @ + 1,
                        ![i].registered = @ + 1]
    /\ rop' = ROp("onClose", i, rr[i].process)
    /\ UNCHANGED notRemote

\* The subprocess ends.
ProcessExits(i) ==
    /\ rr[i].process = "running"
    /\ rr' = [rr EXCEPT ![i].process = "exited",
                        ![i].registeredAtExit = rr[i].registered]
    /\ rop' = ROp("exit", i, "exited")
    /\ UNCHANGED notRemote

\* The 'close' event of the subprocess: every once('close') listener runs,
\* each clearing the interval and calling the current onCloseCallable.
CloseEmitted(i) ==
    /\ rr[i].process = "exited"
    /\ LET n == rr[i].listeners
           f == rr[i].onCloseCallable IN
       rr' = [rr EXCEPT ![i].process = "closed",
                        ![i].listeners = 0,
                        ![i].heartbeat = IF n > 0 THEN FALSE ELSE @,
                        ![i].invoked = IF n > 0 /\ f \in Callbacks
                                       THEN [@ EXCEPT ![f] = @ + n] ELSE @]
    /\ rop' = ROp("close", i, "closed")
    /\ UNCHANGED notRemote

\* No RocketRemote has been constructed.
RemoteInit ==
    /\ rr = [i \in Channels |-> NoChannel]
    /\ rop = ROp("none", 0, "none")

(***************************************************************************)
(*                             PythonChecker                                *)
(***************************************************************************)

V38 == <<"3", ".", "8">>
V39 == <<"3", ".", "9">>
V310 == <<"3", ".", "1", "0">>
V311 == <<"3", ".", "1", "1">>
V312 == <<"3", ".", "1", "2">>

\* let supportedPythonVersions, as the module is loaded.
InitialSupportedPythonVersions == <<V38, V39, V310, V311, V312>>

MIN_OPENSSL_VERSION == <<"3", ".", "0", ".", "0">>

\* allInOne(forceVenvRecreate = false), as the platform calls it.
forceVenvRecreate == FALSE

\* What `openssl version` prints.
OpenSSLOutputs ==
    { <<>>,
      <<"command not found">>,
      <<"OpenSSL ", "1", ".", "1", ".", "1", "f", " ", "31 Mar 2020">>,
      <<"LibreSSL ", "2", ".", "8", ".", "3">>,
      <<"OpenSSL ", "3", ".", "0", ".", "0", " ", "7 sep 2021">>,
      <<"OpenSSL ", "3", ".", "2", ".", "1", " ", "30 Jan 2024">>,
      <<"OpenSSL ", "1", "0", ".", "0", ".", "2">> }

\* What `python3 --version` prints: 'Python <major>.<minor>.<patch>\n'.
Minors ==
    { <<"7">>, <<"8">>, <<"9">>, <<"1", "0">>, <<"1", "1">>, <<"1", "2">>,
      <<"1", "3">> }

Patches == { <<"0">>, <<"3">>, <<"8">>, <<"1", "0">> }

PythonVersions ==
    { <<"3", ".">> \o mi \o <<".">> \o pa : mi \in Minors, pa \in Patches }
    \cup { <<"2", ".", "7", ".">> \o pa : pa \in Patches }

PythonOutputs == { <<"Python ">> \o v \o <<"\n">> : v \in PythonVersions }

\* What `python3 -m venv <path> --clear` prints.
VenvOutputs == { <<>>, <<"warning", "\n">>, <<"Error: ", "not created successfully">> }

COp(name, version) == [name |-> name, version |-> version]

\* this.ensurePluginDir(); await this.openSSL() up to its runCommand.
StartAllInOne ==
    /\ checker' = "openSSL"
    /\ UNCHANGED <<supportedPythonVersions, requirementsPath, venvCreated,
                   commands>>

\* openSSL(), from the output of `openssl version` on.
OpenSSL(out) ==
    /\ checker = "openSSL"
    /\ LET r == MatchVersion(out) IN
       IF r # NULL /\ CompareVersions(MIN_OPENSSL_VERSION, r) # 1
       THEN UNCHANGED <<requirementsPath, supportedPythonVersions>>
       ELSE /\ requirementsPath' = "openssl_legacy"
            /\ supportedPythonVersions' =
                   SelectSeq(supportedPythonVersions, LAMBDA e : e # V312)
    /\ checker' = "ensurePythonVersion"
    /\ cop' = COp("openSSL", <<>>)
    /\ UNCHANGED <<venvCreated, commands, launch, scans, pending,
                   publishedUUIDs, constructed, booted, published>>
    /\ UNCHANGED notPlat

\* openSSL() of the PythonChecker of another platform instance of the same
\* process, whose handler the same 'didFinishLaunching' event started: it
\* filters the module-level list, and sets the requirementsPath of its own
\* instance, which is not this.requirementsPath.
OpenSSLElsewhere(out) ==
    /\ launch # "waiting"
    /\ LET r == MatchVersion(out) IN
       IF r # NULL /\ CompareVersions(MIN_OPENSSL_VERSION, r) # 1
       THEN UNCHANGED supportedPythonVersions
       ELSE supportedPythonVersions' =
                SelectSeq(supportedPythonVersions, LAMBDA e : e # V312)
    /\ cop' = COp("openSSLElsewhere", <<>>)
    /\ UNCHANGED <<requirementsPath, venvCreated, checker, commands, launch,
                   scans, pending, publishedUUIDs, constructed, booted,
                   published>>
    /\ UNCHANGED notPlat

\* getSystemPythonVersion(), from the output of `python3 --version`.
SystemPythonVersion(out) == Replace(Trim(out), <<"Python ">>, <<>>)

\* supportedPythonVersions.findIndex((e) => version.includes(e)), from 1;
\* 0 for JavaScript's -1.
FindIndex(version) ==
    LET hits == { k \in 1..Len(supportedPythonVersions) :
                    Includes(version, supportedPythonVersions[k]) }
    IN IF hits = {} THEN 0 ELSE CHOOSE k \in hits : \A j \in hits : k <= j

\* ensurePythonVersion(): an unsupported version enters the while (true)
\* loop, whose first pass logs the error.
EnsurePythonVersion(out) ==
    /\ checker = "ensurePythonVersion"
    /\ LET version == SystemPythonVersion(out) IN
       /\ checker' = IF FindIndex(version) = 0 THEN "blockedVersion"
                     ELSE "ensureVenvCreated"
       /\ cop' = COp("ensurePythonVersion", version)
    /\ UNCHANGED <<supportedPythonVersions, requirementsPath, venvCreated,
                   commands, launch, scans, pending, publishedUUIDs,
                   constructed, booted, published>>
    /\ UNCHANGED notPlat

\* One more pass of a while (true) loop, after delay(300000): the error is
\* logged again.
BlockedPass ==
    /\ checker \in {"blockedVersion", "blockedVenv"}
    /\ cop' = COp("blocked", cop.version)
    /\ UNCHANGED <<supportedPythonVersions, requirementsPath, venvCreated,
                   checker, commands, launch, scans, pending, publishedUUIDs,
                   constructed, booted, published>>
    /\ UNCHANGED notPlat

\* The same without the test of the command's output.
CreateVenv_FilesOnly(out, files, next) ==
    /\ commands' = Append(commands, "createVenv")
    /\ venvCreated' = files
    /\ checker' = IF ~files THEN "blockedVenv" ELSE next

\* createVenv(): the command runs; files tells whether the venv's files
\* exist afterwards.  On failure the while (true) loop is entered, otherwise
\* the caller goes on at next.
CreateVenv(out, files, next) ==
    /\ commands' = Append(commands, "createVenv")
    /\ venvCreated' = files
    /\ checker' = IF Includes(out, <<"not created successfully">>) \/ ~files
                  THEN "blockedVenv"
                  ELSE next

\* ensureVenvCreated(forceVenvRecreate).
EnsureVenvCreated(out, files) ==
    /\ checker = "ensureVenvCreated"
    /\ IF forceVenvRecreate \/ venvCreated = FALSE
       THEN CreateVenv(out, files, "ensureVenvUsesCorrectPythonHome")
       ELSE /\ checker' = "ensureVenvUsesCorrectPythonHome"
            /\ UNCHANGED <<commands, venvCreated>>
    /\ cop' = COp("ensureVenvCreated", <<>>)
    /\ UNCHANGED <<supportedPythonVersions, requirementsPath, launch, scans,
                   pending, publishedUUIDs, constructed, booted, published>>
    /\ UNCHANGED notPlat

\* ensureVenvUsesCorrectPythonHome(): same tells whether the two
\* getPythonHome results are equal.
EnsureVenvUsesCorrectPythonHome(same, out, files) ==
    /\ checker = "ensureVenvUsesCorrectPythonHome"
    /\ IF ~same
       THEN CreateVenv(out, files, "ensureVenvPipUpToDate")
       ELSE /\ checker' = "ensureVenvPipUpToDate"
            /\ UNCHANGED <<commands, venvCreated>>
    /\ cop' = COp("ensureVenvUsesCorrectPythonHome", <<>>)
    /\ UNCHANGED <<supportedPythonVersions, requirementsPath, launch, scans,
                   pending, publishedUUIDs, constructed, booted, published>>
    /\ UNCHANGED notPlat

\* What `pip --version` of the venv reports, what pypi.org answers with,
\* and a request to pypi.org that fails.
PipVersions == { <<"23.3.1">>, <<"24.0">> }
Unreachable == <<"ECONNREFUSED">>
PipResponses == PipVersions \cup {Unreachable}

\* getMostRecentPipVersion(): the version in the response, 'error' when the
\* request fails.
GetMostRecentPipVersion(response) ==
    IF response = Unreachable THEN <<"error">> ELSE response

\* ensureVenvPipUpToDate(): pip is updated unless the venv's pip version
\* equals what getMostRecentPipVersion() returns.
EnsureVenvPipUpToDate(venvPipVersion, response) ==
    /\ checker = "ensureVenvPipUpToDate"
    /\ commands' = IF venvPipVersion = GetMostRecentPipVersion(response)
                   THEN commands ELSE Append(commands, "updatePip")
    /\ checker' = "ensureVenvRequirementsSatisfied"
    /\ cop' = COp("ensureVenvPipUpToDate", <<>>)
    /\ UNCHANGED <<supportedPythonVersions, requirementsPath, venvCreated,
                   launch, scans, pending, publishedUUIDs, constructed,
                   booted, published>>
    /\ UNCHANGED notPlat

\* ensureVenvRequirementsSatisfied(), then allInOne() logs 'Finished' and
\* resolves.
EnsureVenvRequirementsSatisfied(satisfied) ==
    /\ checker = "ensureVenvRequirementsSatisfied"
    /\ commands' = IF satisfied THEN commands
                   ELSE Append(commands, "installRequirements")
    /\ checker' = "finished"
    /\ cop' = COp("ensureVenvRequirementsSatisfied", <<>>)
    /\ UNCHANGED <<supportedPythonVersions, requirementsPath, venvCreated,
                   launch, scans, pending, publishedUUIDs, constructed,
                   booted, published>>
    /\ UNCHANGED notPlat

(***************************************************************************)
(*                        AppleTVEnhancedPlatform                           *)
(***************************************************************************)

\* How many discoverDevices() calls are followed.
MaxScans == 2

\* What a scan can find: Apple TVs, one of them blacklisted, and a device
\* that is no Apple TV.
Found == {"tv1", "tv2", "tv3", "pod"}
AppleTVs == {"tv1", "tv2", "tv3"}
Blacklist == {"tv3"}

\* api.hap.uuid.generate(id).
UUID(d) == <<"uuid", d>>

\* The 'didFinishLaunching' event: the handler runs up to its await.
DidFinishLaunching ==
    /\ launch = "waiting"
    /\ launch' = "checking"
    /\ StartAllInOne
    /\ cop' = COp("didFinishLaunching", <<>>)
    /\ UNCHANGED <<scans, pending, publishedUUIDs, constructed, booted,
                   published>>
    /\ UNCHANGED notPlat

\* await ...allInOne() lets the handler go on.
CheckCompleted_NoAwait == checker # "idle"

CheckCompleted == checker = "finished"

\* The handler after its await: discoverDevices() runs up to its await of
\* find(), and the 30 s interval is set.
LaunchContinues ==
    /\ launch = "checking"
    /\ CheckCompleted
    /\ launch' = "launched"
    /\ scans' = scans + 1
    /\ pending' = pending + 1
    /\ cop' = COp("discoverDevices", <<>>)
    /\ UNCHANGED <<supportedPythonVersions, requirementsPath, venvCreated,
                   checker, commands, publishedUUIDs, constructed, booted,
                   published>>
    /\ UNCHANGED notPlat

\* The interval fires: discoverDevices() runs up to its await of find().
PollFires ==
    /\ launch = "launched"
    /\ scans < MaxScans
    /\ scans' = scans + 1
    /\ pending' = pending + 1
    /\ cop' = COp("poll", <<>>)
    /\ UNCHANGED <<supportedPythonVersions, requirementsPath, venvCreated,
                   checker, commands, launch, publishedUUIDs, constructed,
                   booted, published>>
    /\ UNCHANGED notPlat

\* A discoverDevices() call that ran to its end: what its scan found, which
\* devices it skipped as known, how many other calls are still suspended in
\* find(), and whether this call was suspended there together with another
\* one (one is still suspended, or the call that returned just before left
\* this one suspended).
ScanOp(scanResults, skipped) ==
    [name |-> "scan", version |-> <<>>, found |-> scanResults,
     skipped |-> skipped, pending |-> pending - 1,
     concurrent |-> (pending > 1 \/ (cop.name = "scan" /\ cop.pending > 0))]

\* The same loop without the push of the uuid.
ScanReturns_NoPush(scanResults) ==
    /\ pending > 0
    /\ pending' = pending - 1
    /\ LET appleTVs == scanResults \cap AppleTVs
           fresh == { d \in appleTVs :
                        d \notin Blacklist /\ UUID(d) \notin publishedUUIDs }
       IN /\ publishedUUIDs' = publishedUUIDs
          /\ constructed' = [d \in AppleTVs |->
                               IF d \in fresh THEN constructed[d] + 1
                               ELSE constructed[d]]
          /\ cop' = ScanOp(scanResults, (appleTVs \ Blacklist) \ fresh)
    /\ UNCHANGED <<supportedPythonVersions, requirementsPath, venvCreated,
                   checker, commands, launch, scans, booted, published>>
    /\ UNCHANGED notPlat

\* find() settles (with [] after an error) and discoverDevices() runs to its
\* end: every Apple TV found that is neither blacklisted nor published yet
\* gets its uuid pushed and its accessory constructed.
ScanReturns(scanResults) ==
    /\ pending > 0
    /\ pending' = pending - 1
    /\ LET appleTVs == scanResults \cap AppleTVs
           fresh == { d \in appleTVs :
                        d \notin Blacklist /\ UUID(d) \notin publishedUUIDs }
       IN /\ publishedUUIDs' = publishedUUIDs \cup { UUID(d) : d \in fresh }
          /\ constructed' = [d \in AppleTVs |->
                               IF d \in fresh THEN constructed[d] + 1
                               ELSE constructed[d]]
          /\ cop' = ScanOp(scanResults, (appleTVs \ Blacklist) \ fresh)
    /\ UNCHANGED <<supportedPythonVersions, requirementsPath, venvCreated,
                   checker, commands, launch, scans, booted, published>>
    /\ UNCHANGED notPlat

\* startUp() of the accessory of d reaches this.booted = true.
Boots(d) ==
    /\ constructed[d] > 0
    /\ d \notin booted
    /\ booted' = booted \cup {d}
    /\ cop' = COp("booted", <<>>)
    /\ UNCHANGED <<supportedPythonVersions, requirementsPath, venvCreated,
                   checker, commands, launch, scans, pending, publishedUUIDs,
                   constructed, published>>
    /\ UNCHANGED notPlat

\* untilBooted() resolves and the accessory is published.
Publish(d) ==
    /\ d \in booted
    /\ published[d] < constructed[d]
    /\ published' = [published EXCEPT ![d] = @ + 1]
    /\ cop' = COp("publish", <<>>)
    /\ UNCHANGED <<supportedPythonVersions, requirementsPath, venvCreated,
                   checker, commands, launch, scans, pending, publishedUUIDs,
                   constructed, booted>>
    /\ UNCHANGED notPlat

\* The device whose accessory is followed through its constructor, pair()
\* and startUp().
Followed == "tv1"

\* new AppleTVEnhancedAccessory(...) in discoverDevices, for the followed
\* device.
ConstructFound ==
    /\ constructed[Followed] > 0
    /\ Construct

\* startUp() with this.booted = true ahead of its await.
StartUpCompletes_BootedEarly ==
    /\ pc = "started"
    /\ startUpRan = <<>>
    /\ Followed \notin booted
    /\ booted' = booted \cup {Followed}
    /\ cop' = COp("booted", <<>>)
    /\ UNCHANGED <<credFile, pc, attempt, goOn, success, credentials,
                   backOffSeconds, proc, watchdog, server, returned,
                   successSeen, pairCalls, startUps, hadCreds, goOnBy, sleep,
                   pop, startUpRan>>
    /\ UNCHANGED netVars
    /\ UNCHANGED <<supportedPythonVersions, requirementsPath, venvCreated,
                   checker, commands, launch, scans, pending, publishedUUIDs,
                   constructed, published>>
    /\ UNCHANGED <<accVars, evVars, rrVars>>

\* listApps() resolves in startUp() of the followed accessory: the inputs,
\* the sensors and the listeners are created and this.booted becomes true.
StartUpCompletes ==
    /\ pc = "started"
    /\ startUpRan = <<>>
    /\ Followed \notin booted
    /\ startUpRan' = StartUpTail
    /\ booted' = booted \cup {Followed}
    /\ cop' = COp("booted", <<>>)
    /\ UNCHANGED <<credFile, pc, attempt, goOn, success, credentials,
                   backOffSeconds, proc, watchdog, server, returned,
                   successSeen, pairCalls, startUps, hadCreds, goOnBy, sleep,
                   pop>>
    /\ UNCHANGED netVars
    /\ UNCHANGED <<supportedPythonVersions, requirementsPath, venvCreated,
                   checker, commands, launch, scans, pending, publishedUUIDs,
                   constructed, published>>
    /\ UNCHANGED <<accVars, evVars, rrVars>>

\* listApps() rejects: startUp() rejects at its await and nothing after it
\* runs.
StartUpRejects ==
    /\ pc = "started"
    /\ startUpRan = <<>>
    /\ startUpRan' = <<"rejected">>
    /\ pop' = POp("startUpRejected", attempt, <<>>)
    /\ UNCHANGED <<credFile, pc, attempt, goOn, success, credentials,
                   backOffSeconds, proc, watchdog, server, returned,
                   successSeen, pairCalls, startUps, hadCreds, goOnBy, sleep>>
    /\ UNCHANGED netVars
    /\ UNCHANGED notPair

\* The platform is constructed: the handler is registered, the module-level
\* list is as loaded, and the venv is there or not.
PlatInit ==
    /\ supportedPythonVersions = InitialSupportedPythonVersions
    /\ requirementsPath = "default"
    /\ venvCreated \in BOOLEAN
    /\ checker = "idle"
    /\ commands = <<>>
    /\ cop = COp("constructor", <<>>)
    /\ launch = "waiting"
    /\ scans = 0
    /\ pending = 0
    /\ publishedUUIDs = {}
    /\ constructed = [d \in AppleTVs |-> 0]
    /\ booted = {}
    /\ published = [d \in AppleTVs |-> 0]

\* The same, on a host that has no venv yet.
PlatFresh == PlatInit /\ venvCreated = FALSE

(***************************************************************************)
(*                           Specifications                                 *)
(***************************************************************************)

\* The accessory after startUp: the power commands, the wait loop, the
\* power-state events and the clock.
Init == AccInit /\ PairDone /\ RemoteInit /\ PlatFresh

Next ==
    \/ Tick
    \/ HandleActiveSetOn
    \/ HandleActiveSetOnIgnored
    \/ HandleActiveSetOff
    \/ \E k \in 1..MaxLoops : WaitNull(k)
    \/ \E k \in 1..MaxLoops, mt \in MediaTypes, ds \in DeviceStates :
          WaitBoth(k, mt, ds)
    \/ \E k \in 1..MaxLoops : WaitRejected(k)
    \/ \E v \in PowerValues, ov \in PowerValues : PowerStateEvent(v, ov)

Spec == Init /\ [][Next]_vars

\* The event loop runs every continuation that is ready: a pending getState()
\* settles, one way or another.
WaitProgress ==
    \/ \E k \in 1..MaxLoops : WaitNull(k)
    \/ \E k \in 1..MaxLoops, mt \in MediaTypes, ds \in DeviceStates :
          WaitBoth(k, mt, ds)
    \/ \E k \in 1..MaxLoops : WaitRejected(k)

FairSpec == Spec /\ WF_vars(WaitProgress)

\* The power commands and the wait loop alone, at one instant.
WaitNext ==
    \/ HandleActiveSetOn
    \/ HandleActiveSetOnIgnored
    \/ HandleActiveSetOff
    \/ \E k \in 1..MaxLoops : WaitNull(k)
    \/ \E k \in 1..MaxLoops, mt \in MediaTypes, ds \in DeviceStates :
          WaitBoth(k, mt, ds)
    \/ \E k \in 1..MaxLoops : WaitRejected(k)

SpecWait == Init /\ [][WaitNext]_vars

FairSpecWait == SpecWait /\ WF_vars(WaitProgress)

\* The values an event of each category carries.
DeviceStateValues == DeviceStates \cup {NULL}
MediaTypeValues == MediaTypes \cup {NULL}

\* The accessory after startUp with its listeners: the three event
\* categories, the error channel, the read handlers, the power commands and
\* the clock, against a device whose getState() answers with both values or
\* rejects.
EventNext ==
    \/ Tick
    \/ HandleActiveSetOn
    \/ HandleActiveSetOnIgnored
    \/ HandleActiveSetOff
    \/ \E k \in 1..MaxLoops, mt \in MediaTypes, ds \in DeviceStates :
          WaitBoth(k, mt, ds)
    \/ \E k \in 1..MaxLoops : WaitRejected(k)
    \/ \E v \in PowerValues, ov \in PowerValues : PowerStateEvent(v, ov)
    \/ \E v \in DeviceStateValues, ov \in DeviceStateValues :
          DeviceStateEvent(v, ov)
    \/ \E v \in MediaTypeValues, ov \in MediaTypeValues : MediaTypeEvent(v, ov)
    \/ \E key \in Categories : ErrorShapedEvent(key)
    \/ DeviceError
    \/ HandleActiveGet
    \/ \E sensor \in deviceStateServices \cup mediaTypeServices :
          MotionDetectedGet(sensor)

SpecEvents == Init /\ [][EventNext]_vars

\* The accessory after startUp, at one instant, against a device whose
\* events of a category follow one another and whose getState() answers with
\* both values or rejects: the power commands with their polls, the three
\* event categories and the error channel.
ChainNext ==
    \/ HandleActiveSetOn
    \/ HandleActiveSetOnIgnored
    \/ HandleActiveSetOff
    \/ \E k \in 1..MaxLoops, mt \in MediaTypes, ds \in DeviceStates :
          WaitBoth(k, mt, ds)
    \/ \E k \in 1..MaxLoops : WaitRejected(k)
    \/ \E v \in PowerValues, ov \in PowerValues : PowerStateEvent(v, ov)
    \/ \E v \in DeviceStateValues : NextDeviceStateEvent(v)
    \/ \E v \in MediaTypeValues : NextMediaTypeEvent(v)
    \/ DeviceError

SpecChain == Init /\ [][ChainNext]_vars

\* The listeners alone: the three event categories and the error channel,
\* at one instant and without power commands.
ListenerNext ==
    \/ \E v \in PowerValues, ov \in PowerValues : PowerStateEvent(v, ov)
    \/ \E v \in DeviceStateValues, ov \in DeviceStateValues :
          DeviceStateEvent(v, ov)
    \/ \E v \in MediaTypeValues, ov \in MediaTypeValues : MediaTypeEvent(v, ov)
    \/ \E key \in Categories : ErrorShapedEvent(key)
    \/ DeviceError

SpecListeners == Init /\ [][ListenerNext]_vars

\* The constructor and pair().
PairSpecInit == PairInit /\ AccInit /\ RemoteInit /\ PlatFresh

PairNext ==
    \/ Construct
    \/ SpawnAttempt
    \/ PairReturn
    \/ \E k \in Attempts, data \in Chunks : StdoutData(k, data)
    \/ \E k \in Attempts, data \in StderrChunks : StderrData(k, data)
    \/ \E k \in Attempts : ProcExit(k)
    \/ \E k \in Attempts : ProcClose(k)
    \/ \E k \in Attempts : WatchdogFires(k)
    \/ \E k \in Attempts : Get(k)
    \/ \E k \in Attempts, reqBody \in PostBodies : Post(k, reqBody)
    \/ WaitEnds
    \/ BackOffTick
    \/ PairThen

SpecPair == PairSpecInit /\ [][PairNext]_vars

\* What the program itself schedules: the constructor and the then-callback,
\* the polls of the wait loop, the countdown, the loop's next iteration, the
\* timers, and the delivery of 'close' once a subprocess has ended.  What a
\* subprocess prints, when it ends and what a browser sends are up to them.
PairProgress ==
    \/ Construct
    \/ SpawnAttempt
    \/ PairReturn
    \/ \E k \in Attempts : ProcClose(k)
    \/ \E k \in Attempts : WatchdogFires(k)
    \/ WaitEnds
    \/ BackOffTick
    \/ PairThen

FairSpecPair == SpecPair /\ WF_vars(PairProgress)

\* pair() for every host: iterations whose subprocess writes to stderr and
\* ends, so that the loop goes round.
PortNext ==
    \/ Construct
    \/ SpawnAttempt
    \/ \E k \in Attempts, data \in StderrChunks : StderrData(k, data)
    \/ \E k \in Attempts : ProcExit(k)
    \/ \E k \in Attempts : ProcClose(k)
    \/ WaitEnds

PortSpecInit == PortInit /\ AccInit /\ RemoteInit /\ PlatFresh

SpecPort == PortSpecInit /\ [][PortNext]_vars

\* The credentials file under saveCredentials and getCredentials, from any
\* initial file.
CredsNext ==
    \/ \E c \in CredentialStrings : SaveCredentials(c)
    \/ GetCredentials

SpecCreds == PairSpecInit /\ [][CredsNext]_vars

\* RocketRemote instances, their callers and their subprocesses.
RemoteSpecInit == RemoteInit /\ AccInit /\ PairDone /\ PlatFresh

RemoteNext ==
    \/ \E i \in Channels : NewRocketRemote(i)
    \/ \E i \in Channels : HeartbeatTick(i)
    \/ \E i \in Channels : SendCommand(i)
    \/ \E i \in Channels, f \in Callbacks : OnClose(i, f)
    \/ \E i \in Channels : ProcessExits(i)
    \/ \E i \in Channels : CloseEmitted(i)

SpecRemote == RemoteSpecInit /\ [][RemoteNext]_vars

\* What the program itself schedules: the delivery of a 'close' event and the
\* firing of a set interval.  Constructor calls, onClose and sendCommand calls
\* and the end of a subprocess are up to the callers and the environment.
RemoteProgress ==
    \/ \E i \in Channels : CloseEmitted(i)
    \/ \E i \in Channels : HeartbeatTick(i)

FairSpecRemote == SpecRemote /\ WF_vars(RemoteProgress)

\* A host whose environment an earlier run of the checker left satisfied.
PlatSatisfied == PlatInit /\ venvCreated = TRUE

\* The platform from its construction on: the launch, the environment check
\* and the discovery.
PlatSpecInit == PlatInit /\ AccInit /\ PairDone /\ RemoteInit

PlatNext ==
    \/ DidFinishLaunching
    \/ \E out \in OpenSSLOutputs : OpenSSL(out)
    \/ \E out \in PythonOutputs : EnsurePythonVersion(out)
    \/ BlockedPass
    \/ \E out \in VenvOutputs, files \in BOOLEAN : EnsureVenvCreated(out, files)
    \/ \E same \in BOOLEAN, out \in VenvOutputs, files \in BOOLEAN :
          EnsureVenvUsesCorrectPythonHome(same, out, files)
    \/ \E venvPipVersion \in PipVersions, response \in PipResponses :
          EnsureVenvPipUpToDate(venvPipVersion, response)
    \/ \E satisfied \in BOOLEAN : EnsureVenvRequirementsSatisfied(satisfied)
    \/ LaunchContinues
    \/ PollFires
    \/ \E scanResults \in SUBSET Found : ScanReturns(scanResults)
    \/ \E d \in AppleTVs : Boots(d)
    \/ \E d \in AppleTVs : Publish(d)

SpecPlatform == PlatSpecInit /\ [][PlatNext]_vars

\* The platform after its launch: the environment check has finished and the
\* first discoverDevices() call is suspended in find().
PlatLaunched ==
    /\ supportedPythonVersions = InitialSupportedPythonVersions
    /\ requirementsPath = "default"
    /\ venvCreated = TRUE
    /\ checker = "finished"
    /\ commands = <<>>
    /\ cop = COp("discoverDevices", <<>>)
    /\ launch = "launched"
    /\ scans = 1
    /\ pending = 1
    /\ publishedUUIDs = {}
    /\ constructed = [d \in AppleTVs |-> 0]
    /\ booted = {}
    /\ published = [d \in AppleTVs |-> 0]

\* The chunks a pairing subprocess of the followed accessory prints: a PIN
\* prompt, an error, the credentials.
BootChunks ==
    { PinMarker, <<"Error", "\n">>, SuccessMarker \o <<"a", "\n">> }

\* Discovery, and the accessory of one device from its construction to its
\* publication: the constructor, pair(), startUp() and untilBooted().
BootInit == PairInit /\ AccInit /\ RemoteInit /\ PlatLaunched

BootNext ==
    \/ PollFires
    \/ \E scanResults \in SUBSET Found : ScanReturns(scanResults)
    \/ ConstructFound
    \/ SpawnAttempt
    \/ PairReturn
    \/ \E k \in Attempts, data \in BootChunks : StdoutData(k, data)
    \/ \E k \in Attempts : ProcExit(k)
    \/ \E k \in Attempts : ProcClose(k)
    \/ \E k \in Attempts : WatchdogFires(k)
    \/ WaitEnds
    \/ PairThen
    \/ StartUpCompletes
    \/ StartUpRejects
    \/ Publish(Followed)

SpecBoot == BootInit /\ [][BootNext]_vars

\* The checker's next run on a host whose environment is satisfied: the
\* venv's files exist, its runtime home is the system's, its pip is the most
\* recent one and the manifest's packages are installed.  What the run cannot
\* take from the host, the answer of pypi.org, is open.
RerunInit == PlatSatisfied /\ AccInit /\ PairDone /\ RemoteInit

RerunNext ==
    \/ DidFinishLaunching
    \/ \E out \in OpenSSLOutputs : OpenSSL(out)
    \/ \E out \in PythonOutputs : EnsurePythonVersion(out)
    \/ BlockedPass
    \/ \E out \in VenvOutputs, files \in BOOLEAN : EnsureVenvCreated(out, files)
    \/ \E out \in VenvOutputs, files \in BOOLEAN :
          EnsureVenvUsesCorrectPythonHome(TRUE, out, files)
    \/ \E venvPipVersion \in PipVersions :
          \E response \in {venvPipVersion, Unreachable} :
             EnsureVenvPipUpToDate(venvPipVersion, response)
    \/ EnsureVenvRequirementsSatisfied(TRUE)
    \/ LaunchContinues

SpecRerun == RerunInit /\ [][RerunNext]_vars

\* The same with a second platform instance in the process, of which only
\* the TLS check of its checker is followed.
PlatformsNext ==
    \/ PlatNext
    \/ \E out \in OpenSSLOutputs : OpenSSLElsewhere(out)

SpecPlatforms == PlatSpecInit /\ [][PlatformsNext]_vars

(***************************************************************************)
(*                 Power commands and power-state events                    *)
(***************************************************************************)

\* C1: a power-off command at time t after a power-on command recorded at
\* lastOn is forwarded to the device (turnOff) if and only if
\* t - lastOn >= 7500 ms, the boundary t - lastOn = 7500 ms included.
C1_OffCommandForwardedIff ==
    (op.name = "setInactive" /\ lastOnEvent # 0)
        => (op.out = "turnOff" <=> now - lastOnEvent >= GRACE)

\* C2: a power-state event 'off' received less than 7500 ms after the last
\* power-on command leaves Active unchanged; one received 7500 ms or more
\* after it, with a value different from oldValue, sets Active to INACTIVE.
C2_OffEventGraceWindow ==
    [][ (op'.name = "powerState" /\ op'.v = "off") =>
          /\ (now' - lastOnEvent' < GRACE => active' = active)
          /\ (now' - lastOnEvent' >= GRACE /\ op'.ov # "off"
                => active' = "INACTIVE") ]_vars

\* An 'off' event arrived inside the grace window of a power-on command while
\* Active was ACTIVE, and Active still is.
C2_Witness ==
    /\ op.name = "powerState" /\ op.v = "off" /\ op.ov = "on"
    /\ lastOnEvent # 0
    /\ now - lastOnEvent < GRACE
    /\ active = "ACTIVE"

\* C3: after every power-on command that set turningOn, turningOn becomes
\* false again, whatever the outcome of the state wait.
C3_TurningOnEventuallyCleared == turningOn ~> ~turningOn

(***************************************************************************)
(*                     Pairing and the constructor                          *)
(***************************************************************************)

\* The text that follows the success marker in its line of a chunk.
RECURSIVE UpToNewline(_)
UpToNewline(s) ==
    IF s = <<>> \/ Head(s) = "\n" THEN <<>> ELSE <<Head(s)>> \o UpToNewline(Tail(s))

AfterSuccessMarker(data) ==
    UpToNewline(SubSeq(data, Search(data, SuccessMarker) + Len(SuccessMarker),
                       Len(data)))

\* C4: pair() returns only after a stdout line with the success marker was
\* seen in the attempt it returns from, only after that attempt's subprocess
\* has exited and its HTTP listener has been closed, and it returns the
\* trimmed credentials text that follows the success marker in that line.
C4_PairReturnsCredentials ==
    returned # Pending =>
        /\ successSeen.k # 0
        /\ successSeen.k = attempt
        /\ proc[attempt] = "closed"
        /\ server[attempt] = "closed"
        /\ returned = Trim(AfterSuccessMarker(successSeen.data))

\* C5: with an empty or absent credentials file the pairing flow completes
\* before startUp is invoked, startUp is invoked exactly once, and the file
\* then holds exactly the string pair() returned; with persisted credentials
\* pair() is never invoked.
C5_PairThenStartUp ==
    /\ startUps <= 1
    /\ pc = "started" => startUps = 1
    /\ startUps = 1 => pc = "started"
    /\ (hadCreds = "no" /\ startUps = 1) =>
          /\ pairCalls = 1
          /\ returned # Pending
          /\ credFile = returned
    /\ hadCreds = "yes" => (pairCalls = 0 /\ attempt = 0)

\* startUp has been invoked after a pairing that needed a second attempt.
C5_Witness ==
    /\ hadCreds = "no"
    /\ pop.name = "then"
    /\ startUps = 1
    /\ attempt >= 2
    /\ credFile = returned
    /\ credFile # <<>>

(***************************************************************************)
(*                        The control channel                               *)
(***************************************************************************)

\* C6: once the subprocess of a channel has ended and its 'close' event was
\* delivered, the callback registered by the onClose calls made before the
\* end has been invoked exactly once, however many such calls there were.
C6_CloseCallbackExactlyOnce ==
    \A i \in Channels :
        ( /\ rop = ROp("close", i, "closed")
          /\ rr[i].registeredAtExit >= 1
          /\ rr[i].registered = rr[i].registeredAtExit )
        => rr[i].invoked[rr[i].onCloseCallable] = 1

\* C7: no heartbeat write is issued to a subprocess that has ended: by the
\* time its 'close' event was delivered the heartbeat timer is cancelled,
\* whatever the interleaving of ticks, calls and the end of the subprocess.
C7_NoHeartbeatAfterExit ==
    rop.name = "heartbeat" => rop.process # "closed"

\* C8: an instance is never given a second subprocess, and once the
\* subprocess of the first channel has ended a new instance with a new
\* subprocess is eventually constructed.
C8_ChannelRecreated ==
    /\ [](\A i \in Channels : rr[i].spawned <= 1)
    /\ (rr[1].process = "exited") ~> (rr[2].process = "running")

(***************************************************************************)
(*                 The platform launch and the environment check            *)
(***************************************************************************)

\* C9: a discovery run has started, or an accessory object has been
\* constructed, only when allInOne() has completed; while the check is blocked
\* in one of its endless loops no discovery run has started.
C9_DiscoveryAfterCheck ==
    /\ ( \/ scans > 0
         \/ pending > 0
         \/ publishedUUIDs # {}
         \/ \E d \in AppleTVs : constructed[d] > 0 )
       => checker = "finished"
    /\ checker \in {"blockedVersion", "blockedVenv"}
       => scans = 0 /\ launch = "checking"

\* C9, its case: the check has completed, discovery has run and an
\* accessory object was constructed.
C9_Witness ==
    /\ checker = "finished"
    /\ scans > 0
    /\ \E d \in AppleTVs : constructed[d] > 0

\* C10: for the version major.minor.patch the interpreter reports,
\* ensurePythonVersion() returns and lets ensureVenvCreated() run if and only
\* if major.minor is one of 3.8 .. 3.12 (3.8 .. 3.11 in legacy mode); for every
\* other version it blocks, and then no command of a later step has run and
\* no discovery has started.
C10_InterpreterCheck ==
    LET parts == Split(cop.version, <<".">>)
        major == ParseInt(parts[1])
        minor == ParseInt(parts[2])
        newest == IF requirementsPath = "openssl_legacy" THEN 11 ELSE 12
    IN /\ cop.name = "ensurePythonVersion"
          => ( checker = "ensureVenvCreated"
               <=> (major = 3 /\ minor >= 8 /\ minor <= newest) )
       /\ cop.name = "ensurePythonVersion"
          => checker \in {"ensureVenvCreated", "blockedVersion"}
       /\ checker = "blockedVersion" => commands = <<>> /\ scans = 0

(***************************************************************************)
(*                          The pairing loop                                *)
(***************************************************************************)

\* C11: once a stdout chunk with the PIN-prompt marker has been handled, goOn
\* is set (so that the wait ends as soon as the subprocess has closed).
C11_PinPromptSetsGoOn ==
    (pop.name = "stdout" /\ Includes(pop.data, PinMarker)) => goOn

\* C12: an iteration starts with goOn and backOffSeconds unset and its own
\* running subprocess, and its wait ends only when goOn was set by output of
\* that iteration's own subprocess and that subprocess has closed.
C12_FlagsPerIteration ==
    /\ pop.name = "spawn" =>
          /\ ~goOn
          /\ backOffSeconds = 0
          /\ proc[attempt] = "running"
    /\ pop.name = "waitEnds" =>
          /\ goOnBy = attempt
          /\ proc[attempt] = "closed"

\* C13: a chunk with BackOff=12s sets a wait of 12 + 5 seconds; the value
\* captured when the wait loop ends is counted down in one-second ticks after
\* the listener was closed, and the next subprocess is spawned only when as
\* many ticks as seconds captured have elapsed (17 for BackOff=12s).
C13_BackOffCountdown ==
    [][ /\ ( /\ pop'.name = "stdout"
             /\ ~Includes(pop'.data, PinMarker)
             /\ Includes(pop'.data, BackOffMarker \o <<"1", "2", "s">>) )
           => backOffSeconds' = 12 + 5
        /\ (pc = "wait" /\ pc' # "wait")
           => /\ server'[attempt] = "closed"
              /\ sleep' = [due |-> IF backOffSeconds > 0 THEN backOffSeconds ELSE 0,
                           done |-> 0]
        /\ pc' = "backoff"
           => /\ sleep'.done < sleep'.due
              /\ \A k \in Attempts : proc'[k] # "running" /\ server'[k] # "listening"
        /\ (pc = "backoff" /\ sleep' # sleep)
           => sleep' = [sleep EXCEPT !.done = @ + 1]
        /\ (attempt' # attempt /\ attempt >= 1)
           => sleep.done = sleep.due
      ]_vars

\* C13, its case: after BackOff=12s the countdown has run its 17 ticks and
\* the next iteration is about to begin.
C13_Witness ==
    /\ pc = "loop"
    /\ attempt = 1
    /\ ~success
    /\ sleep = [due |-> 17, done |-> 17]

\* C14: an attempt whose subprocess has closed without the success marker is
\* eventually followed by a new attempt.
C14_ClosedAttemptIsRetried ==
    \A k \in Attempts :
        k < MaxAttempts => ((proc[k] = "closed" /\ ~success) ~> (attempt > k))

\* A chunk that contains none of the four markers.
NoMarker(data) ==
    /\ ~Includes(data, PinMarker)
    /\ ~Includes(data, BackOffMarker)
    /\ ~Includes(ToUpperCase(data), <<"ERROR">>)
    /\ ~Includes(data, SuccessMarker)

\* C15: a chunk on stdout or stderr that contains none of the four markers
\* leaves goOn, backOffSeconds, success and credentials unchanged.
C15_UnmatchedOutputIgnored ==
    [][ (pop'.name \in {"stdout", "stderr"} /\ NoMarker(pop'.data))
        => UNCHANGED <<goOn, backOffSeconds, success, credentials>> ]_vars

\* C16: of the markers a stdout chunk contains only the first in the order
\* PIN prompt, BackOff=, error, success takes effect; a chunk with 'error' in
\* any letter case and the success marker sets goOn, but neither success nor
\* credentials.
C16_FirstMatchWins ==
    [][ pop'.name = "stdout" =>
          IF Includes(pop'.data, PinMarker)
          THEN UNCHANGED <<backOffSeconds, success, credentials>>
          ELSE IF Includes(pop'.data, BackOffMarker)
          THEN goOn' /\ UNCHANGED <<success, credentials>>
          ELSE IF Includes(ToUpperCase(pop'.data), <<"ERROR">>)
          THEN goOn' /\ UNCHANGED <<backOffSeconds, success, credentials>>
          ELSE IF Includes(pop'.data, SuccessMarker)
          THEN goOn' /\ success' /\ UNCHANGED backOffSeconds
          ELSE TRUE
      ]_vars

\* C16, its case: a chunk with 'error' and the success marker was handled in
\* the first iteration, goOn is set and success is not.
C16_Witness ==
    /\ pop.name = "stdout"
    /\ ~Includes(pop.data, PinMarker)
    /\ ~Includes(pop.data, BackOffMarker)
    /\ Includes(ToUpperCase(pop.data), <<"ERROR">>)
    /\ Includes(pop.data, SuccessMarker)
    /\ goOn
    /\ ~success
    /\ credentials = <<>>

C18_OneListener ==
    /\ Cardinality({ k \in Attempts : server[k] = "listening" }) <= 1
    /\ pc \in {"backoff", "loop", "returned", "started"}
       => \A k \in Attempts : server[k] # "listening"
    /\ \A k \in Attempts :
          server[k] = "listening"
          => k = attempt /\ pc = "wait" /\ \A j \in 1..(k - 1) : server[j] = "closed"

\* C18, its case: the second iteration's server is listening after the first
\* one's was closed.
C18_Witness ==
    /\ attempt = 2
    /\ server[1] = "closed"
    /\ server[2] = "listening"

\* C19: for a body of at least four '&'-separated fields that each have a
\* character at index 2, the text written to the subprocess is those four
\* characters of the first four fields, in order, and a newline; for
\* a=1&b=2&c=3&d=4 it is 1234 and a newline.
C19_PinFromBody ==
    pop.name = "post" =>
        LET fields == Split(pop.body, <<"&">>) IN
        /\ (Len(fields) >= 4 /\ \A i \in 1..4 : Len(fields[i]) >= 3)
           => pop.data = <<fields[1][3], fields[2][3], fields[3][3],
                           fields[4][3], "\n">>
        /\ pop.body = <<"a", "=", "1", "&", "b", "=", "2", "&", "c", "=", "3",
                        "&", "d", "=", "4">>
           => pop.data = <<"1", "2", "3", "4", "\n">>

\* C19, its case: the body a=1&b=2&c=3&d=4 was posted and 1234 written.
C19_Witness ==
    /\ pop.name = "post"
    /\ pop.body = <<"a", "=", "1", "&", "b", "=", "2", "&", "c", "=", "3",
                    "&", "d", "=", "4">>
    /\ pop.data = <<"1", "2", "3", "4", "\n">>
    /\ pop.to = attempt

\* C20: a POST with an empty body or with fewer than four fields writes
\* nothing to the subprocess.
C20_EmptyPinDropped ==
    (pop.name = "post" /\ Len(Split(pop.body, <<"&">>)) < 4) => pop.data = <<>>

(***************************************************************************)
(*                   Device events and the offline flag                     *)
(***************************************************************************)

\* A typed (non-error) event of one of the three categories was handled last.
TypedEvent(o) == o.name \in Categories /\ o.v # "Error"

\* C21: offline is false after startUp and true after every error-channel
\* callback; it goes from true to false only in a typed category event whose
\* value is not null, and every such event leaves it false; a typed event
\* with a null value and an error-shaped category event leave it unchanged.
C21_OfflineFlag ==
    /\ [](op.name = "startUp" => ~offline)
    /\ [][ /\ (op'.name = "error" => offline')
           /\ ((offline /\ ~offline') => (TypedEvent(op') /\ op'.v # NULL))
           /\ ((TypedEvent(op') /\ op'.v # NULL) => ~offline')
           /\ ((op'.name \in Categories /\ op'.v \in {NULL, "Error"})
                 => offline' = offline) ]_vars

\* A typed event with a null value arrived while offline, and offline stays.
C21_Witness ==
    /\ op.name = "deviceState" /\ op.v = NULL /\ op.ov = "playing"
    /\ offline

\* C22: an Error delivered on the powerState, deviceState or mediaType
\* category is dropped: Active, the indicators, the media state and the
\* offline flag are what they were.
C22_ErrorShapedDropped ==
    [][ (op'.name \in Categories /\ op'.v = "Error") =>
          /\ op'.out = "dropped"
          /\ UNCHANGED <<active, dsOn, mtOn, mediaState, offline>> ]_vars

\* An Error arrived on a category while the accessory was offline and active
\* with an indicator on.
C22_Witness ==
    /\ op.name \in Categories /\ op.v = "Error"
    /\ offline /\ active = "ACTIVE" /\ dsOn # {} /\ mediaState # "INTERRUPTED"

C24_EqualValueNoOp ==
    [][ (op'.name \in {"deviceState", "mediaType"} /\ op'.v # "Error"
           /\ op'.v = op'.ov)
          => UNCHANGED <<dsOn, mtOn, mediaState>> ]_vars

\* C25: while Active is INACTIVE, a device-state or media-type event changes
\* no indicator.
C25_InactiveNoIndicator ==
    [][ (active = "INACTIVE" /\ op'.name \in {"deviceState", "mediaType"}
           /\ op'.v # "Error")
          => UNCHANGED <<dsOn, mtOn>> ]_vars

C26_StateWaitTerminates ==
    /\ [](\A k \in 1..Len(waits) :
            waits[k] >= STEPS /\ waits[k] <= 120 * STEPS)
    /\ [][ /\ (op'.name = "poll" /\ op'.out = "both") =>
               /\ Len(waits') = Len(waits) - 1
               /\ mtOn' = mtOn \cup ({op'.v} \cap mediaTypeServices)
               /\ dsOn' = dsOn \cup ({op'.ov} \cap deviceStateServices)
           /\ (op'.name = "poll" /\ op'.out = "ceiling") =>
               /\ Len(waits') = Len(waits) - 1
               /\ \E k \in 1..Len(waits) : waits[k] = 120 * STEPS
               /\ UNCHANGED <<mtOn, dsOn>> ]_vars
    /\ ((waits # <<>>) ~> (waits = <<>>))

\* A wait polled to the ceiling without both values and ended there.
C26_Witness ==
    /\ op.name = "poll" /\ op.out = "ceiling"
    /\ waits = <<>> /\ ~turningOn /\ active = "ACTIVE"

(***************************************************************************)
(*                          The credentials file                            *)
(***************************************************************************)

\* C28: getCredentials() right after saveCredentials(c) returns c trimmed;
\* getCredentials() leaves the content of an existing file as it is, and
\* creates a missing file empty.
C28_CredentialsRoundTrip ==
    [][ /\ (pop.name = "saveCredentials" /\ pop'.name = "getCredentials")
             => pop'.data = Trim(pop.data)
        /\ (pop'.name = "getCredentials" /\ credFile # Absent)
             => credFile' = credFile
        /\ (pop'.name = "getCredentials" /\ credFile = Absent)
             => credFile' = <<>> ]_vars

\* Credentials with white space around them were saved and read back
\* without it.
C28_Witness ==
    /\ pop.name = "getCredentials"
    /\ credFile = <<" ", "a", "\n">>
    /\ pop.data = <<"a">>

(***************************************************************************)
(*                      The environment checker's steps                     *)
(***************************************************************************)

\* 3.12 is in the module-level list of supported versions.
Supports312 ==
    \E k \in 1..Len(supportedPythonVersions) : supportedPythonVersions[k] = V312

\* C29: right after the TLS check of a checker run, 3.12 is excluded from
\* the supported set exactly when the run selected the legacy manifest.
C29_LegacyIffExcluded ==
    cop.name = "openSSL" => (~Supports312 <=> requirementsPath = "openssl_legacy")

\* The text createVenv looks for in the output of the creation command.
FailureText == <<"not created successfully">>

\* C30: a step 3 or step 4 that ran the creation command and got the failure
\* text in its output, or found the venv's files missing afterwards, leaves
\* the checker in createVenv's endless loop; from there the checker only
\* repeats its message: it runs no further command, takes no further step
\* and does not let the launch handler go on.
C30_VenvFailureBlocks ==
    /\ [][ \A out \in VenvOutputs, files \in BOOLEAN :
             ( /\ \/ EnsureVenvCreated(out, files)
                  \/ \E same \in BOOLEAN :
                        EnsureVenvUsesCorrectPythonHome(same, out, files)
               /\ commands' # commands
               /\ (Includes(out, FailureText) \/ ~files) )
             => checker' = "blockedVenv" ]_vars
    /\ [][ checker = "blockedVenv" =>
             /\ checker' = "blockedVenv"
             /\ cop'.name = "blocked"
             /\ UNCHANGED <<commands, launch, scans, venvCreated>> ]_vars
    /\ [](checker = "blockedVenv" => launch = "checking")

\* The venv of step 3 was created, the recreation of step 4 failed with all
\* files present, and the checker repeats its message.
C30_Witness ==
    /\ checker = "blockedVenv" /\ cop.name = "blocked"
    /\ commands = <<"createVenv", "createVenv">>
    /\ venvCreated
    /\ launch = "checking"

\* C31: the checker's run on a host whose environment is satisfied invokes
\* no mutating subprocess: no venv creation, no pip update, no install.
C31_RerunMutatesNothing == commands = <<>>

(***************************************************************************)
(*                        The pairing callback port                         *)
(***************************************************************************)

\* C32: once pair() is entered for host a.b.c.d, httpPort is 42000 + d, it
\* lies in 42000..42255, and the server of every iteration is told to
\* listen on it.
C32_CallbackPort ==
    /\ pairCalls > 0 =>
          /\ \E d \in Octets : host = HostOf(d) /\ httpPort = 42000 + d
          /\ httpPort \in 42000..42255
    /\ \A i \in 1..Len(ports) : ports[i] = httpPort

\* Two iterations of pair() for a host that ends in 255 listened on 42255.
C32_Witness ==
    /\ host = HostOf(255)
    /\ ports = <<42255, 42255>>
    /\ attempt = 2

\* A record handed to the logger: its level and its text.
LogRecord(level, text) == [level |-> level, text |-> text]

\* The stdout handler reaches its success branch on this chunk.
TakesSuccessBranch(data) ==
    /\ ~Includes(data, PinMarker)
    /\ ~Includes(data, BackOffMarker)
    /\ ~Includes(ToUpperCase(data), <<"ERROR">>)
    /\ Includes(data, SuccessMarker)

\* The records the step o of the credentials and pairing code hands to the
\* logger.  getCredentials logs what it read, the stderr and stdout handlers
\* log every chunk, and the success branch logs split[1] untrimmed.  The
\* records of the other steps hold fixed texts, the PIN, the port or the
\* back-off only.
LogRecords(o) ==
    IF o.name \in {"constructor", "getCredentials"}
    THEN <<LogRecord("debug", <<"Loaded credentials: ">> \o o.data)>>
         \o (IF o.name = "constructor" /\ o.data = <<>>
             THEN <<LogRecord("debug",
                     <<"Got empty credentials, initiating pairing process.">>)>>
             ELSE <<>>)
    ELSE IF o.name = "stderr"
    THEN <<LogRecord("error", <<"stderr: ">> \o o.data)>>
    ELSE IF o.name = "stdout"
    THEN <<LogRecord("debug", <<"stdout: ">> \o o.data)>>
         \o (IF TakesSuccessBranch(o.data)
             THEN <<LogRecord("debug", <<"Extracted credentials: ">>
                                       \o Split(o.data, <<":", " ">>)[2])>>
             ELSE <<>>)
    ELSE IF o.name = "post"
    THEN <<LogRecord("info", <<"Got PIN ">> \o PinOf(o.body))>>
    ELSE <<>>

\* The credentials the accessory holds: those credentials.txt has after the
\* constructor ran and those a pairing extracted.
Secrets ==
    ({credentials} \cup (IF credFile = Absent THEN {} ELSE {Trim(credFile)}))
    \ {<<>>}

\* C33: no log record produced while the credentials are loaded or while the
\* device is paired contains the credentials string.
C33_NoCredentialsInLog ==
    \A i \in 1..Len(LogRecords(pop)) :
        \A c \in Secrets : ~Includes(LogRecords(pop)[i].text, c)

\* C34: a power-on command that arrives while turningOn is true issues no
\* turnOn, leaves lastOnEvent, the wait loops and turningOn as they are, and
\* at most one power-on wait loop runs at any time.
C34_SecondPowerOnIgnored ==
    /\ [](Len(waits) <= 1)
    /\ [][ (turningOn /\ op'.name = "setActive")
             => /\ op'.out = "none"
                /\ lastOnEvent' = lastOnEvent
                /\ waits' = waits
                /\ turningOn' ]_vars

\* A power-on command was ignored while the wait loop of an earlier one, begun
\* at an earlier instant, is running.
C34_Witness ==
    /\ op = Op("setActive", NULL, NULL, "none")
    /\ turningOn
    /\ Len(waits) = 1
    /\ lastOnEvent < now

\* C35: however the discovery runs overlap and however many scans report a
\* device, at most one accessory object is constructed for it, and none for
\* a blacklisted device.
C35_OneAccessoryPerDevice ==
    \A d \in AppleTVs :
        /\ constructed[d] <= 1
        /\ d \in Blacklist => constructed[d] = 0

\* A discovery run that was suspended in find() together with another one
\* found a device that already has its accessory, and a blacklisted one.
C35_Witness ==
    /\ cop.name = "scan"
    /\ cop.concurrent
    /\ "tv1" \in cop.skipped
    /\ "tv3" \in cop.found
    /\ constructed["tv1"] = 1
    /\ constructed["tv3"] = 0

\* The argument startUp() was called with: the file's credentials, or what
\* pair() resolved with.
StartUpCredentials == IF hadCreds = "yes" THEN Trim(credFile) ELSE returned

\* C36: an accessory is published only after its booted flag is true, the
\* flag is true only after startUp was called with credentials and created
\* the inputs, the sensors and the listeners, an accessory whose pairing has
\* not succeeded is not published, and none is published twice.
C36_PublishedAfterBoot ==
    /\ \A d \in AppleTVs : published[d] <= 1
    /\ published[Followed] > 0 => Followed \in booted
    /\ Followed \in booted =>
          /\ pc = "started"
          /\ StartUpCredentials \notin {<<>>, Pending}
          /\ Trim(credFile) = StartUpCredentials
          /\ startUpRan = StartUpTail
    /\ (hadCreds = "no" /\ ~success) => published[Followed] = 0

\* The followed accessory was published after a pairing that needed a second
\* attempt.
C36_Witness ==
    /\ cop.name = "publish"
    /\ published[Followed] = 1
    /\ hadCreds = "no"
    /\ attempt = 2
    /\ success

\* C37: at most one device-state indicator and at most one media-type
\* indicator is on, whatever the interleaving of chained device-state and
\* media-type events, power-state events, power-on commands with their polls
\* and connection losses.
C37_OneIndicatorOn ==
    /\ Cardinality(dsOn) <= 1
    /\ Cardinality(mtOn) <= 1

\* C38: a PIN that arrives through the HTTP endpoint is written to the
\* subprocess of the attempt whose listener received it, never to that of
\* another attempt, and only while that subprocess has not exited.
C38_PinToOwnRunningSubprocess ==
    pop.name = "post" => (pop.to = pop.k /\ pop.state = "running")

====
